---- MODULE Spec2Model ----
(***************************************************************************)
(* Case reconciliation and selection pipeline of data_process.py.          *)
(*                                                                         *)
(* Representation.                                                         *)
(*  - A Python str is a sequence of one-character strings.                 *)
(*  - A stored similarity (after round(x, 4)) is an integer in units of    *)
(*    1e-4; a matrix cell holds an integer in units of 1e-5, so that       *)
(*    round(x, 4) is a real conversion.  Ratios compared with a threshold  *)
(*    are compared exactly by cross multiplication, thresholds in percent. *)
(*  - similarity_range is an integer in units of 1e-4 and                  *)
(*    similarity_variance (the standard deviation of two similarities,     *)
(*    half their distance) an integer in units of 5e-5; arithmetic on them *)
(*    is exact.                                                            *)
(*  - A JSON value that may be of several types is a record with a "kind"  *)
(*    field; None is kind "none", an absent key is kind "missing".         *)
(*  - A raised Python exception is an outcome: the operation's result has  *)
(*    raised = TRUE, and the run ends at pc = "raised".                    *)
(*  - A local variable of the code that is read several times is a         *)
(*    parameter of a helper operator local to the operator of its function *)
(*    (the rest of the function from that point on), so that it is         *)
(*    evaluated once.                                                      *)
(***************************************************************************)
EXTENDS Integers, Sequences, FiniteSets, TLC

VARIABLES
    pc,                     \* position of the run
    rng,                    \* state of the module-level generator of `random`
    idx,                    \* loop index of the function that is running
    pred_diff_list,         \* generate_task3_pairs: predicted differential list
    truth_diff_list,        \* generate_task3_pairs: ground-truth differential list
    similarity_matrix,      \* generate_task3_pairs: optional similarity matrix
    task3,                  \* outcome of generate_task3_pairs
    case_eval,              \* match_case_by_gt: the evaluation sample
    medical_data,           \* the reference pool (medical_file)
    matched_item,           \* match_case_by_gt: position returned, or NoMatch
    per_sample_results,     \* the evaluation samples (eval_file)
    processed_cases,        \* process_evaluation_data: cases assembled so far
    temp_file,              \* content of the file step 1 writes and step 2 reads
    data,                   \* validate_and_filter_data: the cases read
    valid_cases,            \* validate_and_filter_data: accepted cases
    removed_cases,          \* validate_and_filter_data: rejection entries
    used_image_signatures,  \* validate_and_filter_data: signatures accepted
    output_file,            \* content of the file step 2 writes
    max_cases,              \* parameters of validate_and_filter_data
    min_similarity_variance,
    random_selection,
    random_seed,
    run,                    \* 1 in the first run, 2 in the re-run
    first_run,              \* what the first run left behind
    str1,                  \* a string function: its first argument
    str2,                  \* calculate_jaccard_similarity: its second argument
    normalized,             \* normalize_diagnosis(str1)
    renormalized,           \* normalize_diagnosis(normalize_diagnosis(str1))
    jaccard                 \* calculate_jaccard_similarity(str1, str2)

pairVars == <<pred_diff_list, truth_diff_list, similarity_matrix, task3>>
matchVars == <<case_eval, matched_item>>
inputVars == <<medical_data, per_sample_results>>
processVars == <<processed_cases, temp_file>>
validateVars == <<data, valid_cases, removed_cases, used_image_signatures, output_file>>
paramVars == <<max_cases, min_similarity_variance, random_selection, random_seed>>
runVars == <<run, first_run>>
stringVars == <<str1, str2, normalized, renormalized, jaccard>>

vars == <<pc, rng, idx, pairVars, matchVars, inputVars, processVars, validateVars,
          paramVars, runVars, stringVars>>

----------------------------------------------------------------------------
(* Characters and strings                                                  *)

\* str.lower() on one character
ToLower(c) ==
    LET upper == <<"A", "B", "C", "D", "E", "P", "V", "X", "Y">>
        lower == <<"a", "b", "c", "d", "e", "p", "v", "x", "y">>
    IN  IF \E i \in 1..Len(upper) : upper[i] = c
        THEN lower[CHOOSE i \in 1..Len(upper) : upper[i] = c]
        ELSE c

\* \s of the regular expressions, and the characters str.strip() removes
IsSpace(c) == c \in {" ", "\t"}

RECURSIVE LStrip(_)
LStrip(s) == IF s # <<>> /\ IsSpace(Head(s)) THEN LStrip(Tail(s)) ELSE s

\* normalize_diagnosis: lower(), strip(), punctuation -> blank, collapse blanks.
\* strip() runs BEFORE the punctuation is replaced.
normalize_diagnosis(diag) ==
    LET Lowered(s) == [i \in 1..Len(s) |-> ToLower(s[i])]
        RECURSIVE RStrip(_)
        RStrip(s) ==
            IF s # <<>> /\ IsSpace(s[Len(s)]) THEN RStrip(SubSeq(s, 1, Len(s) - 1))
            ELSE s
        \* str.strip()
        Strip(s) == RStrip(LStrip(s))
        \* re.sub(r'[^\w\s]', ' ', s): neither a word character nor white space
        BlankPunct(s) ==
            [i \in 1..Len(s) |->
                IF s[i] \in {".", ",", "-", "(", ")", "/"} THEN " " ELSE s[i]]
        \* re.sub(r'\s+', ' ', s): every maximal run of white space becomes one
        \* blank
        RECURSIVE CollapseSpaces(_)
        CollapseSpaces(s) ==
            IF s = <<>> THEN <<>>
            ELSE IF IsSpace(Head(s))
                 THEN <<" ">> \o CollapseSpaces(LStrip(s))
                 ELSE <<Head(s)>> \o CollapseSpaces(Tail(s))
    IN  IF diag = <<>> THEN <<>>
        ELSE CollapseSpaces(BlankPunct(Strip(Lowered(diag))))

\* str.split(): the maximal runs of non-blank characters, as a set (set(d.split()))
RECURSIVE Words(_)
Words(s) ==
    LET RECURSIVE TakeWord(_)
        TakeWord(t) ==
            IF t = <<>> \/ IsSpace(Head(t)) THEN <<>>
            ELSE <<Head(t)>> \o TakeWord(Tail(t))
        WordsAfter(t, w) == {w} \cup Words(SubSeq(t, Len(w) + 1, Len(t)))
        WordsStripped(t) == IF t = <<>> THEN {} ELSE WordsAfter(t, TakeWord(t))
    IN  WordsStripped(LStrip(s))

Min2(a, b) == IF a <= b THEN a ELSE b
Max2(a, b) == IF a >= b THEN a ELSE b

----------------------------------------------------------------------------
(* Equivalence classifiers.  thr is the threshold in percent.              *)

\* len_ratio = min(len(d1), len(d2)) / max(len(d1), len(d2)) > threshold
LenRatioAbove(d1, d2, thr) ==
    100 * Min2(Len(d1), Len(d2)) > thr * Max2(Len(d1), Len(d2))

\* `d1 in d2 or d2 in d1`
Contains(d1, d2) ==
    LET \* Python's `a in b` on strings
        IsSubstring(a, b) ==
            \E k \in 0..(Len(b) - Len(a)) : SubSeq(b, k + 1, k + Len(a)) = a
    IN  IsSubstring(d1, d2) \/ IsSubstring(d2, d1)

\* diagnoses_match(diag1, diag2, threshold)
diagnoses_match(diag1, diag2, thr) ==
    LET \* from the normalized strings and their token sets on
        match_normalized(d1, d2, w1, w2) ==
            \/ d1 = d2
            \/ Contains(d1, d2) /\ LenRatioAbove(d1, d2, thr)
            \/ /\ w1 # {} /\ w2 # {}
               /\ 100 * Cardinality(w1 \cap w2) > thr * Cardinality(w1 \cup w2)
        match_words(d1, d2) == match_normalized(d1, d2, Words(d1), Words(d2))
    IN  IF diag1 = <<>> \/ diag2 = <<>> THEN FALSE
        ELSE match_words(normalize_diagnosis(diag1), normalize_diagnosis(diag2))

\* are_diagnoses_same(diag1, diag2, similarity_threshold)
are_diagnoses_same(diag1, diag2, thr) ==
    LET \* from the normalized strings and their token sets on
        same_normalized(d1, d2, w1, w2) ==
            \/ d1 = d2
            \/ /\ w1 # {} /\ w2 # {}
               /\ \/ 100 * Cardinality(w1 \cap w2) >= thr * Cardinality(w1 \cup w2)
                  \/ Contains(d1, d2) /\ LenRatioAbove(d1, d2, thr)
        same_words(d1, d2) == same_normalized(d1, d2, Words(d1), Words(d2))
    IN  IF diag1 = <<>> \/ diag2 = <<>> THEN FALSE
        ELSE same_words(normalize_diagnosis(diag1), normalize_diagnosis(diag2))

\* An overlap check without the test of the smaller token set
overlap_by_jaccard_only(diag1, diag2, thr) ==
    /\ diag1 # <<>> /\ diag2 # <<>>
    /\ Words(normalize_diagnosis(diag1)) # {}
    /\ Words(normalize_diagnosis(diag2)) # {}
    /\ 100 * Cardinality(Words(normalize_diagnosis(diag1))
                         \cap Words(normalize_diagnosis(diag2)))
          >= thr * Cardinality(Words(normalize_diagnosis(diag1))
                               \cup Words(normalize_diagnosis(diag2)))

\* has_high_content_overlap(diag1, diag2, overlap_threshold)
has_high_content_overlap(diag1, diag2, thr) ==
    LET \* from the two token sets on
        overlap_sized(w1, w2, n1, n2) ==
            /\ w1 # {} /\ w2 # {}
            /\ \/ 100 * Cardinality(w1 \cap w2) >= thr * Cardinality(w1 \cup w2)
               \* smaller.intersection(larger) / len(smaller)
               \/ 100 * Cardinality(w1 \cap w2) >= thr * Min2(n1, n2)
        overlap_words(w1, w2) == overlap_sized(w1, w2, Cardinality(w1), Cardinality(w2))
    IN  IF diag1 = <<>> \/ diag2 = <<>> THEN FALSE
        ELSE overlap_words(Words(normalize_diagnosis(diag1)),
                           Words(normalize_diagnosis(diag2)))

----------------------------------------------------------------------------
(* Numbers                                                                 *)

\* round(n/d, 4) in units of 1e-4, d > 0: nearest, a tie to the even neighbour
Round4(n, d) ==
    LET q == (10000 * n) \div d
        r == (10000 * n) % d
    IN  IF 2 * r < d THEN q
        ELSE IF 2 * r > d THEN q + 1
        ELSE IF q % 2 = 0 THEN q ELSE q + 1

Abs(x) == IF x < 0 THEN -x ELSE x

RECURSIVE SeqMin(_)
SeqMin(s) == IF Len(s) = 1 THEN s[1] ELSE Min2(s[1], SeqMin(Tail(s)))

RECURSIVE SeqMax(_)
SeqMax(s) == IF Len(s) = 1 THEN s[1] ELSE Max2(s[1], SeqMax(Tail(s)))

\* An overlap measure that divides by len(words1) + len(words2)
jaccard_by_sum(diag1, diag2) ==
    <<Cardinality(Words(normalize_diagnosis(diag1)) \cap Words(normalize_diagnosis(diag2))),
      Max2(1, Cardinality(Words(normalize_diagnosis(diag1)))
              + Cardinality(Words(normalize_diagnosis(diag2))))>>

\* calculate_jaccard_similarity: the fraction <<intersection, union>>, 0 when
\* both token sets are empty
calculate_jaccard_similarity(diag1, diag2) ==
    LET jaccard_words(w1, w2) ==
            IF w1 = {} /\ w2 = {} THEN <<0, 1>>
            ELSE <<Cardinality(w1 \cap w2), Cardinality(w1 \cup w2)>>
    IN  jaccard_words(Words(normalize_diagnosis(diag1)),
                      Words(normalize_diagnosis(diag2)))

----------------------------------------------------------------------------
(* Similarity matrix: a JSON value.  kind "list": rows; "none": null or    *)
(* absent; "num": a number other than 0; "dict": an object (its keys are   *)
(* strings), rows then only gives its size.  A row is a list of cells,     *)
(* null or a number; a cell is a number (v, in units of 1e-5), null or a   *)
(* string.                                                                 *)

Cell(v)  == [kind |-> "num", v |-> v]
CellNone == [kind |-> "none", v |-> 0]
CellStr  == [kind |-> "str", v |-> 0]
Row(cells) == [kind |-> "list", cells |-> cells]
RowNone    == [kind |-> "none", cells |-> <<>>]
Matrix(rows) == [kind |-> "list", rows |-> rows]
MatrixNone   == [kind |-> "none", rows |-> <<>>]
MatrixNum    == [kind |-> "num", rows |-> <<>>]
MatrixDict   == [kind |-> "dict", rows |-> <<RowNone>>]

\* Python truth value of similarity_matrix
MatrixTruthy(m) ==
    CASE m.kind = "none" -> FALSE
      [] m.kind = "num"  -> TRUE
      [] OTHER           -> m.rows # <<>>

\* A lookup that never reads the matrix
lookup_jaccard_only(m, i, j, pred, truth) ==
    [raised |-> FALSE, source |-> "jaccard",
     value |-> Round4(calculate_jaccard_similarity(pred, truth)[1],
                      calculate_jaccard_similarity(pred, truth)[2])]

\* The cell lookup of generate_task3_pairs and create_default_pairs
\*   if similarity_matrix and i < len(similarity_matrix)
\*                        and j < len(similarity_matrix[i]):
\*       similarity = similarity_matrix[i][j]
\*   else: similarity = calculate_jaccard_similarity(pred, truth)
\* followed by round(similarity, 4) where the pair is built.  i and j count
\* from 0.  len() of a number or of None raises TypeError, indexing an object
\* by an integer raises KeyError, round() of None or of a string raises
\* TypeError.
lookup_similarity(m, i, j, pred, truth) ==
    LET RaisedLookup == [raised |-> TRUE, source |-> "matrix", value |-> 0]
        JaccardLookup(jac) ==
            [raised |-> FALSE, source |-> "jaccard", value |-> Round4(jac[1], jac[2])]
        CellLookup(cell) ==
            IF cell.kind # "num" THEN RaisedLookup
            ELSE [raised |-> FALSE, source |-> "matrix",
                  value |-> Round4(cell.v, 100000)]
        RowLookup(row) ==
            IF row.kind # "list" THEN RaisedLookup
            ELSE IF ~(j < Len(row.cells))
            THEN JaccardLookup(calculate_jaccard_similarity(pred, truth))
            ELSE CellLookup(row.cells[j + 1])
    IN  IF ~MatrixTruthy(m)
        THEN JaccardLookup(calculate_jaccard_similarity(pred, truth))
        ELSE IF m.kind = "num" THEN RaisedLookup
        ELSE IF ~(i < Len(m.rows))
        THEN JaccardLookup(calculate_jaccard_similarity(pred, truth))
        ELSE IF m.kind = "dict" THEN RaisedLookup
        ELSE RowLookup(m.rows[i + 1])

----------------------------------------------------------------------------
(* JSON scalars of a case record: a string, a number, null, or a key that  *)
(* is absent.                                                              *)

JStr(x)  == [kind |-> "str", s |-> x, n |-> 0]
JNum(x)  == [kind |-> "num", s |-> <<>>, n |-> x]
JNone    == [kind |-> "none", s |-> <<>>, n |-> 0]
JMissing == [kind |-> "missing", s |-> <<>>, n |-> 0]

----------------------------------------------------------------------------
(* The module-level generator of `random`.  Its algorithm is the library's; *)
(* the model keeps what the program relies on: a draw is a function of the  *)
(* generator's state and advances it, and seed() sets the state.            *)

RngPeriod == 3
RngStates == 0..(RngPeriod - 1)
NextRng(s) == (s + 1) % RngPeriod
RandBelow(s, n) == s % n
SeedRng(seed) == seed % RngPeriod

\* random.shuffle(x):
\*   for i in reversed(range(1, len(x))): j = randbelow(i + 1); swap x[i], x[j]
random_shuffle(x, s) ==
    LET Swap(y, a, b) == [y EXCEPT ![a] = y[b], ![b] = y[a]]
        RECURSIVE ShuffleFrom(_, _, _)
        ShuffleFrom(y, i, t) ==
            IF i < 1 THEN [list |-> y, rng |-> t]
            ELSE ShuffleFrom(Swap(y, i + 1, RandBelow(t, i + 1) + 1), i - 1, NextRng(t))
    IN  ShuffleFrom(x, Len(x) - 1, s)

----------------------------------------------------------------------------
(* Pair Selector                                                           *)

\* One pass over the cross product: the candidates appended, in order, or raised
enumerate_pairs(preds, truths, m, sameThr, overlapThr) ==
    LET \* for i, pred in enumerate(pred): for j, truth in enumerate(truth): ...
        \* (0-based)
        CellSeq(np, nt) == [k \in 1..(np * nt) |-> <<(k - 1) \div nt, (k - 1) % nt>>]
        \* The two `continue` filters of one pass
        pair_filtered(pred, truth) ==
            \/ are_diagnoses_same(pred, truth, sameThr)
            \/ has_high_content_overlap(pred, truth, overlapThr)
        keep(c) == ~pair_filtered(preds[c[1] + 1], truths[c[2] + 1])
        \* A candidate of all_pairs.  normalized says whether the keys
        \* similarity_normalized and similarity_original exist yet.
        Candidate(i, j, pred, truth, sim) ==
            [pred_idx |-> i, truth_idx |-> j, predicted |-> pred,
             ground_truth |-> truth, similarity |-> sim, normalized |-> FALSE,
             similarity_normalized |-> 0, similarity_original |-> 0]
        \* The cells of the cross product that pass the filters, in order
        kept_cells == SelectSeq(CellSeq(Len(preds), Len(truths)), keep)
        cell_lookup(c) ==
            lookup_similarity(m, c[1], c[2], preds[c[1] + 1], truths[c[2] + 1])
        pass_result(kept, look) ==
            [raised |-> \E k \in 1..Len(kept) : look[k].raised,
             pairs  |-> [k \in 1..Len(kept) |->
                            Candidate(kept[k][1], kept[k][2], preds[kept[k][1] + 1],
                                      truths[kept[k][2] + 1], look[k].value)]]
        pass_over(kept) ==
            pass_result(kept, [k \in 1..Len(kept) |-> cell_lookup(kept[k])])
    IN  pass_over(kept_cells)

\* The branch max_sim - min_sim < 1e-6: `similarity` keeps its value
normalize_equal(all_pairs) ==
    [k \in 1..Len(all_pairs) |->
        [all_pairs[k] EXCEPT !.normalized = TRUE,
                             !.similarity_normalized = 5000,
                             !.similarity_original = all_pairs[k].similarity]]

normalize_one(pair, nrm) ==
    [pair EXCEPT !.normalized = TRUE,
                 !.similarity_normalized = nrm,
                 !.similarity_original = pair.similarity,
                 !.similarity = nrm]

\* A min-max normalization that divides by the maximum instead of the range
normalize_by_max(all_pairs, min_sim, max_sim) ==
    IF max_sim = 0 THEN normalize_equal(all_pairs)
    ELSE [k \in 1..Len(all_pairs) |->
            normalize_one(all_pairs[k],
                          Round4(all_pairs[k].similarity - min_sim, Abs(max_sim)))]

\* normalize_similarities_in_case from min_sim and max_sim on.  max - min < 1e-6
\* on values rounded to four decimals is max = min.
normalize_between(all_pairs, min_sim, max_sim) ==
    IF max_sim - min_sim = 0 THEN normalize_equal(all_pairs)
    \* The min-max branch: `similarity` is overwritten by the normalized value
    ELSE [k \in 1..Len(all_pairs) |->
            normalize_one(all_pairs[k],
                          Round4(all_pairs[k].similarity - min_sim,
                                 max_sim - min_sim))]

\* normalize_similarities_in_case
normalize_similarities_in_case(all_pairs) ==
    LET normalize_sims(sims) == normalize_between(all_pairs, SeqMin(sims), SeqMax(sims))
    IN  IF all_pairs = <<>> THEN all_pairs
        ELSE normalize_sims([k \in 1..Len(all_pairs) |-> all_pairs[k].similarity])

\* A slip of `and` for `or` in the test below
shares_index_both(pair1, pair2) ==
    pair1.pred_idx = pair2.pred_idx /\ pair1.truth_idx = pair2.truth_idx

\* The `continue` test of the search loop
shares_index(pair1, pair2) ==
    pair1.pred_idx = pair2.pred_idx \/ pair1.truth_idx = pair2.truth_idx

\* A comparison that lets a later combination of equal difference win
improves_or_equal(sim_diff, best_variance) == sim_diff >= best_variance

\* `if sim_diff > best_variance`
improves(sim_diff, best_variance) == sim_diff > best_variance

\* The search loop: best_pair_combo at its end, positions in all_pairs; <<>> is
\* None
best_combo(all_pairs) ==
    LET \* for i in range(len(all_pairs)): for j in range(i + 1, len(all_pairs))
        \* (1-based here)
        upper(c) == c[1] < c[2]
        ComboSeq(n) ==
            SelectSeq([k \in 1..(n * n) |-> <<((k - 1) \div n) + 1, ((k - 1) % n) + 1>>],
                      upper)
        \* One iteration on pair1, pair2: <<best_variance, best_pair_combo>> after it
        scan_step(pair1, pair2, combo, best_variance, best_pair_combo) ==
            IF shares_index(pair1, pair2) THEN <<best_variance, best_pair_combo>>
            ELSE IF improves(Abs(pair1.similarity - pair2.similarity), best_variance)
            THEN <<Abs(pair1.similarity - pair2.similarity), combo>>
            ELSE <<best_variance, best_pair_combo>>
        \* The loop from combination k on
        RECURSIVE ScanCombos(_, _, _)
        ScanCombos(combos, k, best) ==
            IF k > Len(combos) THEN best[2]
            ELSE ScanCombos(combos, k + 1,
                            scan_step(all_pairs[combos[k][1]], all_pairs[combos[k][2]],
                                      combos[k], best[1], best[2]))
    IN  ScanCombos(ComboSeq(Len(all_pairs)), 1, <<-1, <<>>>>)

\* An element of task3_pairs: an object with these keys, or null
Pair(pair_id, predicted, ground_truth, similarity, similarity_original) ==
    [kind |-> "dict", pair_id |-> pair_id, predicted |-> predicted,
     ground_truth |-> ground_truth, similarity |-> similarity,
     similarity_original |-> similarity_original]

PairNone ==
    [kind |-> "none", pair_id |-> JMissing, predicted |-> JMissing,
     ground_truth |-> JMissing, similarity |-> JMissing,
     similarity_original |-> JMissing]

\* A returned pair that is given pair_id A whatever its place
OutPairAlwaysA(id, pred, truth, sim, orig) ==
    Pair(JStr(<<"A">>), JStr(pred), JStr(truth), JNum(sim), orig)

\* A returned pair
OutPair(id, pred, truth, sim, orig) ==
    Pair(JStr(<<id>>), JStr(pred), JStr(truth), JNum(sim), orig)

\* create_default_pairs
create_default_pairs(preds, truths, m) ==
    LET \* The two placeholder diagnoses, five characters each
        NoPrediction == <<"wu", "yu", "ce", "zhen", "duan">>
        NoTruth      == <<"wu", "zhen", "shi", "zhen", "duan">>
        \* pred_idx / truth_idx
        default_idx(list, i) == IF list # <<>> THEN Min2(i, Len(list) - 1) ELSE 0
        default_item(list, i, placeholder) ==
            IF list # <<>> THEN list[default_idx(list, i) + 1] ELSE placeholder
        default_lookup(i) ==
            lookup_similarity(m, default_idx(preds, i), default_idx(truths, i),
                              default_item(preds, i, NoPrediction),
                              default_item(truths, i, NoTruth))
        default_result(look) ==
            [raised |-> look[1].raised \/ look[2].raised,
             pairs  |-> [k \in 1..2 |->
                           OutPair(IF k = 1 THEN "A" ELSE "B",
                                   default_item(preds, k - 1, NoPrediction),
                                   default_item(truths, k - 1, NoTruth),
                                   look[k].value, JMissing)]]
    IN  default_result([k \in 1..2 |-> default_lookup(k - 1)])

\* The outcome of a call of generate_task3_pairs: whether it raised, the path
\* taken, whether the relaxed pass ran, the local all_pairs and best_pair_combo
\* (positions in all_pairs) at the return, the returned list, and the state in
\* which it leaves the generator.
Outcome(raised, path, retried, all_pairs, combo, pairs, s) ==
    [raised |-> raised, path |-> path, retried |-> retried, all_pairs |-> all_pairs,
     combo |-> combo, pairs |-> pairs, rng |-> s]

NoOutcome == Outcome(FALSE, "none", FALSE, <<>>, <<>>, <<>>, 0)

\* generate_task3_pairs, called with the generator in state s
generate_task3_pairs(preds, truths, m, s) ==
    LET \* `return create_default_pairs(...)`
        default_outcome(d, retried, all_pairs) ==
            IF d.raised THEN Outcome(TRUE, "raised", retried, all_pairs, <<>>, <<>>, s)
            ELSE Outcome(FALSE, "default", retried, all_pairs, <<>>, d.pairs, s)
        \* The return of the best combination
        best_outcome(retried, normed, combo, pair1, pair2) ==
            Outcome(FALSE, "best", retried, normed, combo,
                    << OutPair("A", pair1.predicted, pair1.ground_truth,
                               Round4(pair1.similarity, 10000),
                               JNum(pair1.similarity_original)),
                       OutPair("B", pair2.predicted, pair2.ground_truth,
                               Round4(pair2.similarity, 10000),
                               JNum(pair2.similarity_original)) >>,
                    s)
        \* The return after random.shuffle(all_pairs)
        shuffle_outcome(retried, sh) ==
            Outcome(FALSE, "shuffle", retried, sh.list, <<>>,
                    << OutPair("A", sh.list[1].predicted, sh.list[1].ground_truth,
                               sh.list[1].similarity,
                               JNum(sh.list[1].similarity_original)),
                       OutPair("B", sh.list[2].predicted, sh.list[2].ground_truth,
                               sh.list[2].similarity,
                               JNum(sh.list[2].similarity_original)) >>,
                    sh.rng)
        \* `if best_pair_combo: ... else: random.shuffle(all_pairs) ...`
        select_outcome(retried, normed, combo) ==
            IF combo # <<>>
            THEN best_outcome(retried, normed, combo, normed[combo[1]],
                              normed[combo[2]])
            ELSE shuffle_outcome(retried, random_shuffle(normed, s))
        select_pairs(retried, normed) ==
            select_outcome(retried, normed, best_combo(normed))
        \* From `if len(all_pairs) < 2: return create_default_pairs(...)` on
        after_filter(retried, all_pairs) ==
            IF Len(all_pairs) < 2
            THEN default_outcome(create_default_pairs(preds, truths, m), retried,
                                 all_pairs)
            ELSE select_pairs(retried, normalize_similarities_in_case(all_pairs))
        \* The relaxed pass appends to the list the strict pass left
        after_relaxed(strict, relaxed) ==
            IF relaxed.raised THEN Outcome(TRUE, "raised", TRUE, <<>>, <<>>, <<>>, s)
            ELSE after_filter(TRUE, strict.pairs \o relaxed.pairs)
        \* From the end of the strict pass on
        after_strict(strict) ==
            IF strict.raised THEN Outcome(TRUE, "raised", FALSE, <<>>, <<>>, <<>>, s)
            ELSE IF Len(strict.pairs) < 2
            THEN after_relaxed(strict, enumerate_pairs(preds, truths, m, 95, 80))
            ELSE after_filter(FALSE, strict.pairs)
    IN  IF Len(preds) < 2 \/ Len(truths) < 2
        THEN default_outcome(create_default_pairs(preds, truths, m), FALSE, <<>>)
        ELSE after_strict(enumerate_pairs(preds, truths, m, 85, 70))

----------------------------------------------------------------------------
(* Records of the two input files                                          *)

\* A differential list of an evaluation sample: a list of strings, a string
\* (not a list), or an absent key
DList(items) == [kind |-> "list", items |-> items, s |-> <<>>]
DStr(x)      == [kind |-> "str", items |-> <<>>, s |-> x]
DMissing     == [kind |-> "missing", items |-> <<>>, s |-> <<>>]

\* A list of JSON scalars, null, or an absent key
JList(items) == [kind |-> "list", items |-> items]
JListMissing == [kind |-> "missing", items |-> <<>>]

\* A lookup that gives no default for an absent key
GetWithoutDefault(j, default) == j

\* dict.get(key, default)
Get(j, default) == IF j.kind = "missing" THEN default ELSE j

\* Truth value of a JSON scalar, and of a list
Truthy(j) == (j.kind = "str" /\ j.s # <<>>) \/ (j.kind = "num" /\ j.n # 0)
ListTruthy(l) == l.kind = "list" /\ l.items # <<>>

\* The characters of a string scalar; empty for null and for an absent key
Text(j) == IF j.kind = "str" THEN j.s ELSE <<>>

\* An element of per_sample_results
Sample(id, pred, truth, text, m) ==
    [id |-> id, predicted_differential |-> pred, ground_truth_differential |-> truth,
     predicted_differential_text |-> text, similarity_matrix |-> m]

\* An entry of the GT object of a reference record
GTEntry(key, v) == [key |-> key, v |-> v]

\* An element of medical_data; GT is the sequence of the entries of its GT
\* object, empty when the key is absent
MedItem(gt, image_paths, prompt) ==
    [GT |-> gt, image_paths |-> image_paths, prompt |-> prompt]

----------------------------------------------------------------------------
(* Case Matcher                                                            *)

\* `return None`
NoMatch == -1

\* med_gt_list = [v for k, v in med_gt.items() if k.startswith('label_')]; the
\* prefix is one token of the key
label_values(med_item) ==
    LET is_label(e) == e.key # <<>> /\ Head(e.key) = "label_"
        EntryValues(entries) == [k \in 1..Len(entries) |-> entries[k].v]
    IN  EntryValues(SelectSeq(med_item.GT, is_label))

\* match_score >= best_score: the comparison that keeps the last maximum
better_or_equal(count, den, best) == count * best.den >= best.num * den

\* match_score > best_score, both scores as fractions
better(count, den, best) == count * best.den > best.num * den

\* match_case_by_gt: the position in medical_data of the record returned
match_case_by_gt(sample, pool) ==
    LET \* What `for x in value` ranges over: the elements of a list, the
        \* characters of a string
        IterItems(d) ==
            IF d.kind = "list" THEN d.items
            ELSE IF d.kind = "str" THEN [i \in 1..Len(d.s) |-> <<d.s[i]>>]
            ELSE <<>>
        NormalizeAll(list) == [k \in 1..Len(list) |-> normalize_diagnosis(list[k])]
        \* match_count: the evaluation labels that match some reference label
        match_count(eval_gt_normalized, med_gt_normalized) ==
            Cardinality({ i \in 1..Len(eval_gt_normalized) :
                            \E j \in 1..Len(med_gt_normalized) :
                               diagnoses_match(eval_gt_normalized[i],
                                               med_gt_normalized[j], 80) })
        scored(i, count, den, best) ==
            IF better(count, den, best) THEN [idx |-> i, num |-> count, den |-> den]
            ELSE best
        \* One iteration of the loop over medical_data
        pool_step(i, eval_gt_normalized, med_gt_normalized, best) ==
            IF med_gt_normalized = <<>> THEN best
            ELSE scored(i, match_count(eval_gt_normalized, med_gt_normalized),
                        Max2(Len(eval_gt_normalized), Len(med_gt_normalized)), best)
        \* The loop over medical_data from position k on; best holds best_match
        \* (a position) and best_score
        RECURSIVE ScanPool(_, _, _)
        ScanPool(eval_gt_normalized, k, best) ==
            IF k > Len(pool) THEN best
            ELSE ScanPool(eval_gt_normalized, k + 1,
                          pool_step(k - 1, eval_gt_normalized,
                                    NormalizeAll(label_values(pool[k])), best))
        \* `if best_score >= 0.5: return best_match`
        best_or_none(best) == IF 2 * best.num >= best.den THEN best.idx ELSE NoMatch
        match_labels(eval_gt_list) ==
            IF eval_gt_list = <<>> THEN NoMatch
            ELSE best_or_none(ScanPool(NormalizeAll(eval_gt_list), 1,
                                       [idx |-> NoMatch, num |-> 0, den |-> 1]))
    IN  match_labels(IterItems(sample.ground_truth_differential))
----------------------------------------------------------------------------
(* Case records                                                            *)

\* An element of the file step 1 writes.  The two *_full lists are lists of
\* strings.
Case(id, pmid, image_paths, prompt, predicted_diagnosis, ground_truth_diagnosis, task3_pairs, pred_full, truth_full, similarity_variance, similarity_range) ==
    [id |-> id, pmid |-> pmid, image_paths |-> image_paths, prompt |-> prompt,
     predicted_diagnosis |-> predicted_diagnosis,
     ground_truth_diagnosis |-> ground_truth_diagnosis,
     task3_pairs |-> task3_pairs,
     predicted_differential_diagnosis_full |-> pred_full,
     ground_truth_differential_diagnosis_full |-> truth_full,
     similarity_variance |-> similarity_variance,
     similarity_range |-> similarity_range]

IsNone(j) == j.kind = "none"

\* has_none_values(case): a null at any depth of the record
has_none_values(case) ==
    LET \* The scalar keys of a case
        ScalarKeys ==
            {"id", "pmid", "prompt", "predicted_diagnosis", "ground_truth_diagnosis",
             "similarity_variance", "similarity_range"}
        PairKeys ==
            {"pair_id", "predicted", "ground_truth", "similarity", "similarity_original"}
        ListHasNone(l) == IsNone(l) \/ \E k \in 1..Len(l.items) : IsNone(l.items[k])
        PairHasNone(pair) == IsNone(pair) \/ \E f \in PairKeys : IsNone(pair[f])
        PairsHaveNone(l) ==
            IsNone(l) \/ \E k \in 1..Len(l.items) : PairHasNone(l.items[k])
    IN  \/ \E f \in ScalarKeys : IsNone(case[f])
        \/ ListHasNone(case.image_paths)
        \/ PairsHaveNone(case.task3_pairs)

----------------------------------------------------------------------------
(* Case Validator                                                          *)

\* A comparison of pair_id that never finds two pairs alike
same_pair_id_never(pair_a, pair_b) == FALSE

\* pair_a.get('pair_id') == pair_b.get('pair_id')
same_pair_id(pair_a, pair_b) == pair_a.pair_id = pair_b.pair_id

\* validate_task3_pairs: the reason returned, "" for (True, "")
validate_task3_pairs(pairs) ==
    LET RequiredPairFields == <<"pair_id", "predicted", "ground_truth", "similarity">>
        \* `if field not in pair` / `if pair[field] is None`; "" when neither
        field_problem(j) ==
            IF j.kind = "missing" THEN "task3_pairs item lacks a field"
            ELSE IF j.kind = "none" THEN "task3_pairs field is None"
            ELSE ""
        RECURSIVE fields_problem(_, _)
        fields_problem(pair, k) ==
            IF k > Len(RequiredPairFields) THEN ""
            ELSE IF field_problem(pair[RequiredPairFields[k]]) # ""
            THEN field_problem(pair[RequiredPairFields[k]])
            ELSE fields_problem(pair, k + 1)
        \* The body of the loop over the pairs; "" when the pair is well formed
        pair_problem(pair) ==
            IF pair.kind # "dict" THEN "task3_pairs item is not a dict"
            ELSE fields_problem(pair, 1)
        same_content(pair_a, pair_b) ==
            pair_a.predicted = pair_b.predicted
            /\ pair_a.ground_truth = pair_b.ground_truth
        two_pairs_reason(pair_a, pair_b) ==
            IF pair_problem(pair_a) # "" THEN pair_problem(pair_a)
            ELSE IF pair_problem(pair_b) # "" THEN pair_problem(pair_b)
            ELSE IF same_pair_id(pair_a, pair_b) THEN "pair_id identical"
            ELSE IF same_content(pair_a, pair_b) THEN "pair content identical"
            ELSE ""
    IN  IF pairs.kind # "list" \/ Len(pairs.items) # 2 THEN "task3_pairs must be 2"
        ELSE two_pairs_reason(pairs.items[1], pairs.items[2])

\* diagnoses_are_same
diagnoses_are_same(diag1, diag2) ==
    LET same_text(d1, d2) == d1 = d2 \/ (Contains(d1, d2) /\ LenRatioAbove(d1, d2, 80))
    IN  IF diag1 = <<>> \/ diag2 = <<>> THEN FALSE
        ELSE same_text(normalize_diagnosis(diag1), normalize_diagnosis(diag2))

\* old_prefix and new_prefix of replace_path_prefix, each one token of a path
OldPrefix == "/gpfs/radev/pi/q_chen/zq65/Research/Data/DermDPO/datasets/eval/"
NewPrefix == "images/"

\* sep.join(list of str)
RECURSIVE Join(_, _)
Join(sep, l) ==
    IF l = <<>> THEN <<>>
    ELSE IF Len(l) = 1 THEN l[1]
    ELSE l[1] \o sep \o Join(sep, Tail(l))

\* get_image_signature
get_image_signature(image_paths) ==
    LET \* os.path.basename: what follows the last separator
        IsSep(c) == c \in {"/", OldPrefix, NewPrefix}
        RECURSIVE Basename(_)
        Basename(p) ==
            IF \E i \in 1..Len(p) : IsSep(p[i]) THEN Basename(Tail(p)) ELSE p
        \* The characters of file names in code-point order
        CharOrder == <<".", "0", "1", "2", "3", "4", "5", "6", "7", "8", "9", "_",
                       "a", "b", "c", "d", "e", "p", "v", "x", "y", "|">>
        Rank(c) == CHOOSE i \in 1..Len(CharOrder) : CharOrder[i] = c
        \* a < b on str
        RECURSIVE StrLess(_, _)
        StrLess(a, b) ==
            IF b = <<>> THEN FALSE
            ELSE IF a = <<>> THEN TRUE
            ELSE IF Head(a) = Head(b) THEN StrLess(Tail(a), Tail(b))
            ELSE Rank(Head(a)) < Rank(Head(b))
        InsertString(sorted, x) ==
            LET before(y) == ~StrLess(x, y)
                after(y)  == StrLess(x, y)
            IN  SelectSeq(sorted, before) \o <<x>> \o SelectSeq(sorted, after)
        \* sorted(list of str)
        RECURSIVE SortStrings(_)
        SortStrings(l) ==
            IF l = <<>> THEN <<>>
            ELSE InsertString(SortStrings(SubSeq(l, 1, Len(l) - 1)), l[Len(l)])
        Basenames(items) == [k \in 1..Len(items) |-> Basename(items[k].s)]
    IN  IF ~ListTruthy(image_paths) THEN <<>>
        ELSE Join(<<"|">>, SortStrings(Basenames(image_paths.items)))

\* str(n) for n >= 0
RECURSIVE Decimal(_)
Decimal(n) ==
    LET Digits == <<"0", "1", "2", "3", "4", "5", "6", "7", "8", "9">>
    IN  IF n < 10 THEN <<Digits[n + 1]>>
        ELSE Decimal(n \div 10) \o <<Digits[(n % 10) + 1]>>

\* f'case_{idx}'
DefaultId(i) == JStr(<<"c", "a", "s", "e", "_">> \o Decimal(i))

\* Rule 1
none_reason(case) == IF has_none_values(case) THEN <<"contains None">> ELSE <<>>

\* Rule 2
task3_reason(case) ==
    LET pairs_reason(reason) == IF reason # "" THEN <<reason>> ELSE <<>>
    IN  pairs_reason(validate_task3_pairs(Get(case.task3_pairs, JList(<<>>))))

\* Rule 3, the loop over the pairs: "raise" when pair.get is called on a null
\* pair, "same" at the first pair judged the same, "" at the end
pairs_scan(case) ==
    LET pair_same(pair) ==
            are_diagnoses_same(Text(pair.predicted), Text(pair.ground_truth), 85)
        RECURSIVE scan_pairs(_, _)
        scan_pairs(items, k) ==
            IF k > Len(items) THEN ""
            ELSE IF items[k].kind # "dict" THEN "raise"
            ELSE IF pair_same(items[k]) THEN "same"
            ELSE scan_pairs(items, k + 1)
    IN  IF ListTruthy(case.task3_pairs) THEN scan_pairs(case.task3_pairs.items, 1)
        ELSE ""

same_pair_reason(case) ==
    IF pairs_scan(case) = "same" THEN <<"pair predicted and truth the same">> ELSE <<>>

\* Rule 4
diagnosis_reason(pred_diag, truth_diag) ==
    IF ~Truthy(pred_diag) \/ ~Truthy(truth_diag) THEN <<"diagnosis empty">>
    ELSE IF diagnoses_are_same(Text(pred_diag), Text(truth_diag))
    THEN <<"diagnosis identical">>
    ELSE <<>>

\* A rule 5 that lets every case through
image_reason_never(image_paths) == <<>>

\* Rule 5
image_reason(image_paths) ==
    IF ~ListTruthy(image_paths) THEN <<"no image paths">> ELSE <<>>

\* Rule 6: the first of id, pmid, prompt that is falsy, then break
field_reason(case) ==
    IF ~Truthy(case.id) THEN <<"missing required field: id">>
    ELSE IF ~Truthy(case.pmid) THEN <<"missing required field: pmid">>
    ELSE IF ~Truthy(case.prompt) THEN <<"missing required field: prompt">>
    ELSE <<>>

\* Rule 7
variance_reason(case, min_variance) ==
    IF Get(case.similarity_variance, JNum(0)).n < min_variance
    THEN <<"similarity variance too small">> ELSE <<>>

\* A loop body that never looks at the signatures seen so far
duplicate_reason_never(image_paths, used) == <<>>

\* Rule 8
duplicate_reason(image_paths, used) ==
    IF ListTruthy(image_paths) /\ get_image_signature(image_paths) \in used
    THEN <<"image set duplicated">> ELSE <<>>

\* Whether the body of the validation loop raises on this case
case_raises(case) ==
    \/ pairs_scan(case) = "raise"
    \* None < float raises TypeError
    \/ IsNone(case.similarity_variance)
    \* get_image_signature: os.path.basename(None) raises TypeError
    \/ /\ ListTruthy(case.image_paths)
       /\ \E k \in 1..Len(case.image_paths.items) :
             case.image_paths.items[k].kind # "str"

\* A loop body that stops at the first rule a case breaks
case_reasons_short_circuit(case, used, min_variance) ==
    LET remove_reasons ==
            none_reason(case) \o task3_reason(case) \o same_pair_reason(case)
              \o diagnosis_reason(case.predicted_diagnosis, case.ground_truth_diagnosis)
              \o image_reason(case.image_paths) \o field_reason(case)
              \o variance_reason(case, min_variance)
              \o duplicate_reason(case.image_paths, used)
    IN  IF remove_reasons = <<>> THEN <<>> ELSE <<Head(remove_reasons)>>

\* remove_reasons at the end of the body of the validation loop
case_reasons(case, used, min_variance) ==
    none_reason(case) \o task3_reason(case) \o same_pair_reason(case)
      \o diagnosis_reason(case.predicted_diagnosis, case.ground_truth_diagnosis)
      \o image_reason(case.image_paths) \o field_reason(case)
      \o variance_reason(case, min_variance)
      \o duplicate_reason(case.image_paths, used)

\* An element of removed_cases
RemovedEntry(case_id, reasons, pred_diag, truth_diag, variance, pairs, signature) ==
    [case_id |-> case_id, reasons |-> reasons, predicted_diagnosis |-> pred_diag,
     ground_truth_diagnosis |-> truth_diag, similarity_variance |-> variance,
     task3_pairs |-> pairs, image_signature |-> signature]

\* case.get('pmid', case.get('id', f'case_{idx}'))
case_id_of(case, i) == Get(case.pmid, Get(case.id, DefaultId(i)))

\* The entry appended for a case that fails a rule
removed_entry(case, i, reasons) ==
    RemovedEntry(case_id_of(case, i), reasons,
                 Get(case.predicted_diagnosis, JStr(<<>>)),
                 Get(case.ground_truth_diagnosis, JStr(<<>>)),
                 Get(case.similarity_variance, JNum(0)),
                 Get(case.task3_pairs, JList(<<>>)),
                 JStr(get_image_signature(case.image_paths)))

\* An acceptance that loses the case
accept_dropped(cases, case) == cases

\* valid_cases.append(case)
accept(cases, case) == Append(cases, case)

----------------------------------------------------------------------------
(* Case Selector                                                           *)

\* case.get(key, 0) on a number
Num0(j) == IF j.kind = "num" THEN j.n ELSE 0

\* A sort on similarity_variance alone, descending and stable
RECURSIVE sort_by_variance(_)
sort_by_variance(cases) ==
    LET insert_by_variance(sorted, c) ==
            LET ahead(x)  == Num0(x.similarity_variance) >= Num0(c.similarity_variance)
                behind(x) == Num0(x.similarity_variance) < Num0(c.similarity_variance)
            IN  SelectSeq(sorted, ahead) \o <<c>> \o SelectSeq(sorted, behind)
    IN  IF cases = <<>> THEN <<>>
        ELSE insert_by_variance(sort_by_variance(SubSeq(cases, 1, Len(cases) - 1)),
                                cases[Len(cases)])

\* valid_cases.sort(key=..., reverse=True): descending and stable
RECURSIVE sort_by_dispersion(_)
sort_by_dispersion(cases) ==
    LET \* The sort key similarity_variance * 0.6 + similarity_range * 0.4, in
        \* units of 1e-5
        dispersion(c) ==
            3 * Num0(c.similarity_variance) + 4 * Num0(c.similarity_range)
        insert_by_dispersion(sorted, c) ==
            LET ahead(x)  == dispersion(x) >= dispersion(c)
                behind(x) == dispersion(x) < dispersion(c)
            IN  SelectSeq(sorted, ahead) \o <<c>> \o SelectSeq(sorted, behind)
    IN  IF cases = <<>> THEN <<>>
        ELSE insert_by_dispersion(sort_by_dispersion(SubSeq(cases, 1, Len(cases) - 1)),
                                  cases[Len(cases)])

\* random.sample(population, k), the pool algorithm the library uses for a
\* population of at most 21: for i in range(k): j = randbelow(n - i);
\* result[i] = pool[j]; pool[j] = pool[n - i - 1]
random_sample(population, k, s) ==
    LET RECURSIVE SampleFrom(_, _, _, _)
        SampleFrom(pool, i, result, t) ==
            IF i = k THEN [list |-> result, rng |-> t]
            ELSE SampleFrom([pool EXCEPT ![RandBelow(t, Len(pool) - i) + 1] =
                                            pool[Len(pool) - i]],
                            i + 1,
                            Append(result, pool[RandBelow(t, Len(pool) - i) + 1]),
                            NextRng(t))
    IN  SampleFrom(population, 0, <<>>, s)

Selection(cases, extra, s) == [valid_cases |-> cases, extra_cases |-> extra, rng |-> s]

\* The branch `if random_selection:` on the sorted list
stratified_selection(sorted, max, s) ==
    LET InsertInt(l, x) ==
            LET upto(y)  == y <= x
                above(y) == y > x
            IN  SelectSeq(l, upto) \o <<x>> \o SelectSeq(l, above)
        RECURSIVE SortInts(_)
        SortInts(l) ==
            IF l = <<>> THEN <<>>
            ELSE InsertInt(SortInts(SubSeq(l, 1, Len(l) - 1)), l[Len(l)])
        \* Four times np.percentile(values, 25 * q4) (linear interpolation),
        \* from the sorted values
        percentile4(values, q4) ==
            LET pos == (Len(values) - 1) * q4
                lo  == (pos \div 4) + 1
                hi  == Min2(lo + 1, Len(values))
            IN  4 * values[lo] + (pos % 4) * (values[hi] - values[lo])
        Variances == [k \in 1..Len(sorted) |-> Num0(sorted[k].similarity_variance)]
        high_variance_cases(high4) ==
            LET in_tier(c) == 4 * Num0(c.similarity_variance) >= high4
            IN  SelectSeq(sorted, in_tier)
        medium_variance_cases(medium4, high4) ==
            LET in_tier(c) == /\ medium4 <= 4 * Num0(c.similarity_variance)
                              /\ 4 * Num0(c.similarity_variance) < high4
            IN  SelectSeq(sorted, in_tier)
        low_variance_cases(medium4) ==
            LET in_tier(c) == 4 * Num0(c.similarity_variance) < medium4
            IN  SelectSeq(sorted, in_tier)
        \* n_high, n_medium, n_low before the shortfall is reallocated; h, m, l
        \* are the sizes of the tiers.  int(max_cases * 0.70),
        \* int(max_cases * 0.25)
        first_allocation(h, m, l) ==
            LET n_high   == Min2((7 * max) \div 10, h)
                n_medium == Min2(max \div 4, m)
            IN  <<n_high, n_medium, Min2(max - n_high - n_medium, l)>>
        \* `if total_selected < max_cases:` the shortfall goes to high, medium,
        \* low
        reallocated(h, m, l, n) ==
            LET remaining == max - (n[1] + n[2] + n[3])
                add_high  == IF h > n[1] THEN Min2(remaining, h - n[1]) ELSE 0
                left_high == remaining - add_high
                add_med   == IF left_high > 0 /\ m > n[2]
                             THEN Min2(left_high, m - n[2]) ELSE 0
                left_med  == left_high - add_med
                add_low   == IF left_med > 0 /\ l > n[3]
                             THEN Min2(left_med, l - n[3]) ELSE 0
            IN  IF remaining > 0
                THEN <<n[1] + add_high, n[2] + add_med, n[3] + add_low>>
                ELSE n
        allocation(h, m, l) == reallocated(h, m, l, first_allocation(h, m, l))
        \* `if n > 0 and len(tier) > 0:
        \*      selected_cases.extend(random.sample(tier, n))`
        sample_tier(tier, n, t) ==
            IF n > 0 /\ Len(tier) > 0 THEN random_sample(tier, n, t)
            ELSE [list |-> <<>>, rng |-> t]
        \* selected_ids = set(c.get('id') for c in selected_cases)
        selected_ids(selected) ==
            { Get(selected[k].id, JNone) : k \in 1..Len(selected) }
        \* extra_cases = [c for c in valid_cases if c.get('id') not in
        \* selected_ids]
        not_selected(ids) ==
            LET left_out(c) == Get(c.id, JNone) \notin ids
            IN  SelectSeq(sorted, left_out)
        after_shuffle(sh) ==
            Selection(sh.list, not_selected(selected_ids(sh.list)), sh.rng)
        after_low(selected, sl) ==
            after_shuffle(random_shuffle(selected \o sl.list, sl.rng))
        after_medium(low, n, selected, sm) ==
            after_low(selected \o sm.list, sample_tier(low, n[3], sm.rng))
        after_high(medium, low, n, sh) ==
            after_medium(low, n, sh.list, sample_tier(medium, n[2], sh.rng))
        sample_tiers(high, medium, low, n) ==
            after_high(medium, low, n, sample_tier(high, n[1], s))
        from_tiers(high, medium, low) ==
            sample_tiers(high, medium, low,
                         allocation(Len(high), Len(medium), Len(low)))
        from_thresholds(high4, medium4) ==
            from_tiers(high_variance_cases(high4),
                       medium_variance_cases(medium4, high4),
                       low_variance_cases(medium4))
        from_variances(variances) ==
            from_thresholds(percentile4(variances, 3), percentile4(variances, 2))
    IN  from_variances(SortInts(Variances))

\* A selection that keeps every case whatever the limit
select_without_limit(cases, max, random, s) == Selection(cases, <<>>, s)

\* From `if len(valid_cases) > max_cases:` to the list that is written
select_cases(cases, max, random, s) ==
    LET \* The branch `else:` on the sorted list
        sequential_selection(sorted) ==
            Selection(SubSeq(sorted, 1, max), SubSeq(sorted, max + 1, Len(sorted)), s)
        selection_of(sorted) ==
            IF random THEN stratified_selection(sorted, max, s)
            ELSE sequential_selection(sorted)
    IN  IF Len(cases) > max THEN selection_of(sort_by_dispersion(cases))
        ELSE Selection(cases, <<>>, s)

\* The entries appended for the cases that were not selected
ExtraEntries(extra) ==
    LET extra_entry(case) ==
            RemovedEntry(Get(case.pmid, Get(case.id, JNone)), <<"not selected">>,
                         Get(case.predicted_diagnosis, JStr(<<>>)),
                         Get(case.ground_truth_diagnosis, JStr(<<>>)),
                         Get(case.similarity_variance, JNum(0)),
                         JListMissing, JMissing)
    IN  [k \in 1..Len(extra) |-> extra_entry(extra[k])]

\* A start of step 2 that leaves the generator as it finds it
seed_ignored(random, seed, s) == s

\* `if random_selection: random.seed(random_seed)`
seed_generator(random, seed, s) == IF random THEN SeedRng(seed) ELSE s

----------------------------------------------------------------------------
(* Step 1: process_evaluation_data                                         *)

replace_path_prefix(image_paths) ==
    LET replace_prefix(path) ==
            IF path # <<>> /\ Head(path) = OldPrefix THEN <<NewPrefix>> \o Tail(path)
            ELSE path
    IN  JList([k \in 1..Len(image_paths.items) |->
                 JStr(replace_prefix(image_paths.items[k].s))])

\* `if not isinstance(pred_diff, list): pred_diff = []`
list_or_empty(d) == IF d.kind = "list" THEN d.items ELSE <<>>

\* calculate_similarity_variance on two pairs: np.std of two values is half
\* their distance
calculate_similarity_variance(pairs) ==
    IF Len(pairs) < 2 THEN 0
    ELSE Abs(Num0(pairs[1].similarity) - Num0(pairs[2].similarity))

\* calculate_similarity_range on two pairs
calculate_similarity_range(pairs) ==
    IF Len(pairs) < 2 THEN 0
    ELSE Abs(Num0(pairs[1].similarity) - Num0(pairs[2].similarity))

\* case_data
case_data(sample, i, image_paths, prompt, pred_diff, truth_diff, pairs) ==
    Case(Get(sample.id, DefaultId(i)), Get(sample.id, DefaultId(i)),
         image_paths, prompt,
         Get(sample.predicted_differential_text, JStr(<<>>)),
         JStr(Join(<<" ", "|", " ">>, truth_diff)),
         JList(pairs), pred_diff, truth_diff,
         JNum(calculate_similarity_variance(pairs)),
         JNum(calculate_similarity_range(pairs)))

\* The body of the loop of process_evaluation_data on sample i
process_sample(sample, i, pool, s) ==
    LET \* Where image_paths and prompt come from: the matched record, the
        \* record at the sample's own position, or nothing; a position in
        \* medical_data or NoMatch
        source_of(matched) ==
            IF matched # NoMatch THEN matched
            ELSE IF i < Len(pool) THEN i
            ELSE NoMatch
        source_image_paths(src) ==
            IF src = NoMatch THEN JList(<<>>)
            ELSE Get(pool[src + 1].image_paths, JList(<<>>))
        source_prompt(src) ==
            IF src = NoMatch THEN JStr(<<>>) ELSE Get(pool[src + 1].prompt, JStr(<<>>))
        \* replace_path_prefix raises on null in place of the list and on a
        \* null path
        replace_raises(image_paths) ==
            image_paths.kind # "list"
            \/ \E k \in 1..Len(image_paths.items) : image_paths.items[k].kind # "str"
        Processed(raised, match, source, pairs, case) ==
            [raised |-> raised, matched_item |-> match, source |-> source,
             task3 |-> pairs, case |-> case]
        built(match, src, pairs) ==
            IF pairs.raised THEN Processed(TRUE, match, src, pairs, <<>>)
            ELSE Processed(FALSE, match, src, pairs,
                           case_data(sample, i,
                                     replace_path_prefix(source_image_paths(src)),
                                     source_prompt(src),
                                     list_or_empty(sample.predicted_differential),
                                     list_or_empty(sample.ground_truth_differential),
                                     pairs.pairs))
        with_source(match, src) ==
            IF replace_raises(source_image_paths(src))
            THEN Processed(TRUE, match, src, NoOutcome, <<>>)
            ELSE built(match, src,
                       generate_task3_pairs(
                           list_or_empty(sample.predicted_differential),
                           list_or_empty(sample.ground_truth_differential),
                           sample.similarity_matrix, s))
        with_match(match) == with_source(match, source_of(match))
    IN  with_match(match_case_by_gt(sample, pool))
----------------------------------------------------------------------------
(* Inputs of the pair selector                                             *)

MaxList == 2

PredVocab  == { <<"X", ".">>,
                <<"a", " ", "x">>,
                <<"a", " ", "b", " ", "c", " ", "d">> }
TruthVocab == { <<"a">>,
                <<"x">>,
                <<"a", " ", "b", " ", "c", " ", "e">> }

ListsOver(vocab, n) == UNION { [1..k -> vocab] : k \in 0..n }

Matrices ==
    { MatrixNone,                                                   \* absent
      Matrix(<<>>),                                                 \* empty
      Matrix(<< Row(<<Cell(12346), Cell(90000)>>),
                Row(<<Cell(-20000), Cell(150000)>>) >>),            \* 2 x 2
      Matrix(<< Row(<<Cell(30000), Cell(60000)>>) >>),              \* short
      Matrix(<< Row(<<Cell(30000)>>),
                Row(<<Cell(60000), Cell(10000)>>) >>),              \* ragged
      Matrix(<< RowNone, Row(<<Cell(60000), Cell(10000)>>) >>),     \* a null row
      Matrix(<< Row(<<CellNone, Cell(90000)>>),
                Row(<<Cell(20000), CellStr>>) >>),                  \* bad cells
      MatrixNum,                                                    \* a number
      MatrixDict }                                                  \* an object

\* A call without a matrix on lists of three predictions and two truths:
\* eczema, psoriasis, contact dermatitis / atopic dermatitis, psoriasis vulgaris
ExamplePredicted ==
    << <<"e", "c", "z", "e", "m", "a">>,
       <<"p", "s", "o", "r", "i", "a", "s", "i", "s">>,
       <<"c", "o", "n", "t", "a", "c", "t", " ",
         "d", "e", "r", "m", "a", "t", "i", "t", "i", "s">> >>

ExampleTruth ==
    << <<"a", "t", "o", "p", "i", "c", " ",
         "d", "e", "r", "m", "a", "t", "i", "t", "i", "s">>,
       <<"p", "s", "o", "r", "i", "a", "s", "i", "s", " ",
         "v", "u", "l", "g", "a", "r", "i", "s">> >>

\* A 3 x 2 matrix for these lists in which two combinations of candidates that
\* share no index have the largest difference
ExampleMatrix ==
    Matrix(<< Row(<<Cell(20000), Cell(80000)>>),
              Row(<<Cell(80000), Cell(50000)>>),
              Row(<<Cell(20000), Cell(80000)>>) >>)
----------------------------------------------------------------------------
(* Inputs of the case matcher                                              *)

MaxLabels == 3
MaxPool == 2

Label(n) == <<"label_", n>>

RefRecords ==
    LET RefImages(name) == JList(<< JStr(<<"d", "/", name>>) >>)
    IN
    { MedItem(<< GTEntry(Label("1"), <<"A", " ", "b", ".">>),
                 GTEntry(Label("2"), <<"X">>) >>, RefImages("a"), JStr(<<"p">>)),
      MedItem(<< GTEntry(Label("1"), <<"x">>),
                 GTEntry(<<"n", "o", "t", "e">>, <<"c">>) >>, RefImages("b"), JStr(<<"p">>)),
      MedItem(<<>>, RefImages("c"), JStr(<<"p">>)),
      MedItem(<< GTEntry(Label("1"), <<"a", " ", "b">>),
                 GTEntry(Label("2"), <<"x">>),
                 GTEntry(Label("3"), <<"p">>) >>, RefImages("d"), JStr(<<"p">>)),
      MedItem(<< GTEntry(Label("1"), <<"c">>),
                 GTEntry(Label("2"), <<"c">>) >>, RefImages("e"), JStr(<<"p">>)) }

MatchSamples ==
    LET EvalLabels == { <<"a", " ", "b">>, <<"x">>, <<"c">> }
        EvalGroundTruths ==
            {DMissing, DStr(<<"a", " ", "x">>)}
              \cup { DList(l) : l \in ListsOver(EvalLabels, MaxLabels) }
    IN  { Sample(JStr(<<"s">>), DList(<<>>), gt, JStr(<<>>), MatrixNone) :
            gt \in EvalGroundTruths }

----------------------------------------------------------------------------
(* Inputs of the case validator                                            *)

MaxData == 2
MaxCases == 3

PairA == OutPair("A", <<"a", " ", "x">>, <<"a">>, 9000, JNum(9000))
PairB == OutPair("B", <<"a", " ", "b", " ", "c", " ", "d">>, <<"x">>, 1000, JNum(1000))

\* A case that passes every rule, with one image
GoodCase(id, image, variance) ==
    Case(JStr(id), JStr(id), JList(<<JStr(image)>>), JStr(<<"p">>),
         JStr(<<"a", " ", "x">>), JStr(<<"a">>), JList(<<PairA, PairB>>),
         <<>>, <<>>, JNum(variance), JNum(variance))

CaseVariants ==
    LET BaseCase == GoodCase(<<"c", "1">>, <<"d", "/", "a">>, 8000)
    IN
    { BaseCase,
      \* the same file name in another directory
      GoodCase(<<"c", "2">>, <<"e", "/", "a">>, 8000),
      GoodCase(<<"c", "3">>, <<"b">>, 2000),
      \* a second case with the id of the first, and images of its own
      GoodCase(<<"c", "1">>, <<"c">>, 3000),
      [BaseCase EXCEPT !.image_paths = JList(<<>>)],
      [BaseCase EXCEPT !.image_paths = JList(<<>>), !.similarity_variance = JNone],
      [BaseCase EXCEPT !.image_paths = JListMissing, !.similarity_variance = JNone],
      [BaseCase EXCEPT !.similarity_variance = JNone],
      [BaseCase EXCEPT !.image_paths = JList(<<JStr(<<"d", "/", "a">>), JNone>>)],
      [BaseCase EXCEPT !.task3_pairs =
          JList(<<PairA, [PairB EXCEPT !.similarity = JNone]>>)],
      [BaseCase EXCEPT !.task3_pairs = JList(<<PairA, PairNone>>)],
      [BaseCase EXCEPT !.task3_pairs =
          JList(<<PairA, [PairB EXCEPT !.pair_id = JStr(<<"A">>)]>>)],
      [BaseCase EXCEPT !.task3_pairs =
          JList(<<PairA, [PairA EXCEPT !.pair_id = JStr(<<"B">>)]>>)],
      [BaseCase EXCEPT !.task3_pairs =
          JList(<<PairA, OutPair("B", <<"X", ".">>, <<"x">>, 1000, JNum(1000))>>)],
      [BaseCase EXCEPT !.task3_pairs = JList(<<PairA>>)],
      [BaseCase EXCEPT !.predicted_diagnosis = JStr(<<"A">>)],
      [BaseCase EXCEPT !.prompt = JMissing, !.pmid = JMissing],
      \* no image, an empty prompt and a low dispersion at once
      [GoodCase(<<"c", "3">>, <<"b">>, 2000) EXCEPT
          !.image_paths = JList(<<>>), !.prompt = JStr(<<>>)] }

MinVariances == {0, 5000}

----------------------------------------------------------------------------
(* Inputs of the case selector: cases that pass every rule, with distinct  *)
(* ids and images                                                          *)

MaxValid == 4

VarLevels == {0, 1000, 3000}

Seeds == {0, 1}

NumberedCase(k, variance) ==
    GoodCase(<<"c">> \o Decimal(k), <<"d", "/">> \o Decimal(k), variance)

NumberedCases ==
    UNION { { [k \in 1..n |-> NumberedCase(k, v[k])] : v \in [1..n -> VarLevels] } :
            n \in 0..MaxValid }

\* Cases whose similarity_range is not their similarity_variance: the sort key
\* of the first and of the third level is the same, that of the second lower
RangeLevels == {<<1000, 3000>>, <<3000, 1000>>, <<5000, 0>>}

RangedCase(k, level) ==
    [NumberedCase(k, level[1]) EXCEPT !.similarity_range = JNum(level[2])]

RangedCases ==
    { [k \in 1..MaxCases |-> RangedCase(k, v[k])] : v \in [1..MaxCases -> RangeLevels] }

----------------------------------------------------------------------------
(* Inputs of the pipeline                                                  *)

MaxSamples == 2

PipelineSamples ==
    LET MatrixSmall ==
            Matrix(<< Row(<<Cell(30000), Cell(60000)>>),
                      Row(<<Cell(20000), Cell(90000)>>) >>)
    IN
    { \* two candidates that share the prediction: the shuffle fallback
      Sample(JStr(<<"s", "1">>),
             DList(<< <<"X", ".">>, <<"a", " ", "b", " ", "c", " ", "d">> >>),
             DList(<< <<"a">>, <<"a", " ", "b", " ", "c", " ", "e">> >>),
             JStr(<<"X", ".">>), MatrixSmall),
      \* four candidates: the best combination
      Sample(JStr(<<"s", "2">>),
             DList(<< <<"X", ".">>, <<"p">> >>),
             DList(<< <<"a">>, <<"c">> >>),
             JStr(<<"p">>), MatrixSmall),
      \* short lists: the default pairs; no id
      Sample(JMissing,
             DList(<< <<"X", ".">> >>),
             DList(<< <<"a">> >>),
             JStr(<<"X", ".">>), MatrixNone),
      \* four candidates again, no label that a reference of the pools has
      Sample(JStr(<<"s", "5">>),
             DList(<< <<"a", " ", "x">>, <<"p">> >>),
             DList(<< <<"a", " ", "b", " ", "c", " ", "e">>, <<"x">> >>),
             JStr(<<"p">>), MatrixSmall),
      \* a prediction that is not a list, a matrix of the wrong type
      Sample(JStr(<<"s", "4">>),
             DStr(<<"X", ".">>),
             DList(<< <<"x">>, <<"c">> >>),
             JStr(<<"p">>), MatrixNum),
      \* a sample that lacks every field
      Sample(JMissing, DMissing, DMissing, JMissing, MatrixNone),
      \* no ground truth, no text, no dermlip_metrics
      Sample(JStr(<<"s", "6">>),
             DList(<< <<"X", ".">>, <<"p">> >>),
             DMissing, JMissing, MatrixNone) }

Pools ==
    LET PoolImages(name) == JList(<< JStr(<<OldPrefix, name>>) >>)
    IN
    { <<>>,
      << MedItem(<< GTEntry(Label("1"), <<"A">>),
                    GTEntry(Label("2"), <<"a", " ", "b", " ", "c", " ", "e">>) >>,
                 PoolImages("a"), JStr(<<"p">>)) >>,
      << MedItem(<< GTEntry(Label("1"), <<"e">>) >>,
                 JList(<< JStr(<<"d", "/", "b">>) >>), JStr(<<"p">>)),
         MedItem(<< GTEntry(Label("1"), <<"c">>), GTEntry(Label("2"), <<"p">>) >>,
                 PoolImages("c"), JStr(<<"p">>)) >>,
      \* a record that lacks GT, image_paths and prompt; one that lacks
      \* image_paths
      << MedItem(<<>>, JListMissing, JMissing),
         MedItem(<< GTEntry(Label("1"), <<"a">>) >>, JListMissing, JStr(<<"p">>)) >> }

----------------------------------------------------------------------------
(* Inputs of the string functions: every string of at most MaxChars        *)
(* characters over letters of both cases, white space and punctuation      *)

MaxChars == 3

Alphabet == {"a", "B", "x", " ", "\t", ".", "-"}

Strings == UNION { [1..n -> Alphabet] : n \in 0..MaxChars }
----------------------------------------------------------------------------
(* Initial values of the variables a specification does not use            *)

NoFile == [written |-> FALSE, cases |-> <<>>]

File(cases) == [written |-> TRUE, cases |-> cases]

NoPairCall ==
    /\ pred_diff_list = <<>>
    /\ truth_diff_list = <<>>
    /\ similarity_matrix = MatrixNone
    /\ task3 = NoOutcome

NoMatchCall ==
    /\ case_eval = Sample(JMissing, DMissing, DMissing, JMissing, MatrixNone)
    /\ matched_item = NoMatch

NoStep1 ==
    /\ per_sample_results = <<>>
    /\ processed_cases = <<>>

NoStep2 ==
    /\ data = <<>>
    /\ valid_cases = <<>>
    /\ removed_cases = <<>>
    /\ used_image_signatures = {}
    /\ output_file = NoFile

NoStringCall ==
    /\ str1 = <<>>
    /\ str2 = <<>>
    /\ normalized = <<>>
    /\ renormalized = <<>>
    /\ jaccard = <<0, 1>>

\* The arguments main() passes to validate_and_filter_data
MainMaxCases == 50
MainSeed == 42

DefaultParams ==
    /\ max_cases = MainMaxCases
    /\ min_similarity_variance = 0
    /\ random_selection = TRUE
    /\ random_seed = MainSeed

FirstRun ==
    /\ run = 1
    /\ first_run = [valid_cases |-> <<>>, removed_cases |-> <<>>, output_file |-> NoFile]

----------------------------------------------------------------------------
(* Specification of the pair selector: one call of generate_task3_pairs on *)
(* any input, the generator in any state (nothing seeds it before).  The   *)
(* inputs are the lists over the two vocabularies with every matrix, and   *)
(* the calls on longer lists of longer strings, without and with a matrix. *)

InitPairs ==
    /\ pc = "call"
    /\ \/ /\ pred_diff_list \in ListsOver(PredVocab, MaxList)
          /\ truth_diff_list \in ListsOver(TruthVocab, MaxList)
          /\ similarity_matrix \in Matrices
       \/ /\ pred_diff_list = ExamplePredicted
          /\ truth_diff_list = ExampleTruth
          /\ similarity_matrix \in {MatrixNone, ExampleMatrix}
    /\ rng \in RngStates
    /\ task3 = NoOutcome
    /\ idx = 0
    /\ medical_data = <<>>
    /\ temp_file = NoFile
    /\ NoMatchCall /\ NoStep1 /\ NoStep2 /\ DefaultParams /\ FirstRun
    /\ NoStringCall

GenerateTask3Pairs ==
    /\ pc = "call"
    /\ task3' = generate_task3_pairs(pred_diff_list, truth_diff_list,
                                     similarity_matrix, rng)
    /\ rng' = task3'.rng
    /\ pc' = "returned"
    /\ UNCHANGED <<idx, pred_diff_list, truth_diff_list, similarity_matrix, matchVars,
                   inputVars, processVars, validateVars, paramVars, stringVars,
                   runVars>>

NextPairs == GenerateTask3Pairs

SpecPairs == InitPairs /\ [][NextPairs]_vars

----------------------------------------------------------------------------
(* Specification of the case matcher: one call of match_case_by_gt         *)

InitMatch ==
    /\ pc = "call_match"
    /\ case_eval \in MatchSamples
    /\ medical_data \in ListsOver(RefRecords, MaxPool)
    /\ matched_item = NoMatch
    /\ rng = 0
    /\ idx = 0
    /\ temp_file = NoFile
    /\ NoPairCall /\ NoStep1 /\ NoStep2 /\ DefaultParams /\ FirstRun /\ NoStringCall

MatchCaseByGt ==
    /\ pc = "call_match"
    /\ matched_item' = match_case_by_gt(case_eval, medical_data)
    /\ pc' = "matched"
    /\ UNCHANGED <<rng, idx, pairVars, case_eval, inputVars, processVars, validateVars,
                   paramVars, stringVars, runVars>>

NextMatch == MatchCaseByGt

SpecMatch == InitMatch /\ [][NextMatch]_vars

----------------------------------------------------------------------------
(* Step 1: process_evaluation_data, one action for each iteration of its   *)
(* loop and one for what follows the loop                                  *)

ProcessSample ==
    /\ pc = "step1"
    /\ idx < Len(per_sample_results)
    /\ case_eval' = per_sample_results[idx + 1]
    /\ pred_diff_list' = list_or_empty(case_eval'.predicted_differential)
    /\ truth_diff_list' = list_or_empty(case_eval'.ground_truth_differential)
    /\ similarity_matrix' = case_eval'.similarity_matrix
    /\ \E r \in {process_sample(per_sample_results[idx + 1], idx, medical_data, rng)} :
          /\ matched_item' = r.matched_item
          /\ task3' = r.task3
          /\ rng' = IF r.raised THEN rng ELSE r.task3.rng
          /\ processed_cases' = IF r.raised THEN processed_cases
                                ELSE Append(processed_cases, r.case)
          /\ pc' = IF r.raised THEN "raised" ELSE "step1"
    /\ idx' = idx + 1
    /\ UNCHANGED <<inputVars, temp_file, validateVars, paramVars, stringVars, runVars>>

\* After the loop: the summary divides by len(processed_cases), then the file
\* is written
FinishProcess ==
    /\ pc = "step1"
    /\ idx = Len(per_sample_results)
    /\ IF processed_cases = <<>>
       THEN pc' = "raised" /\ UNCHANGED temp_file
       ELSE pc' = "step2" /\ temp_file' = File(processed_cases)
    /\ UNCHANGED <<rng, idx, pairVars, matchVars, inputVars, processed_cases,
                   validateVars, paramVars, stringVars, runVars>>

----------------------------------------------------------------------------
(* Step 2: validate_and_filter_data, one action for what precedes its      *)
(* loop, one for each iteration and one for what follows                   *)

BeginValidate ==
    /\ pc = "step2"
    /\ rng' = seed_generator(random_selection, random_seed, rng)
    /\ data' = temp_file.cases
    /\ valid_cases' = <<>>
    /\ removed_cases' = <<>>
    /\ used_image_signatures' = {}
    /\ idx' = 0
    /\ pc' = "validate"
    /\ UNCHANGED <<pairVars, matchVars, inputVars, processVars, output_file, paramVars,
                   stringVars,
                   runVars>>

\* The body of the loop on a case that does not raise
Verdict(case, i, reasons) ==
    IF reasons # <<>>
    THEN /\ removed_cases' = Append(removed_cases, removed_entry(case, i, reasons))
         /\ UNCHANGED <<valid_cases, used_image_signatures>>
    ELSE /\ valid_cases' = accept(valid_cases, case)
         /\ used_image_signatures' =
               used_image_signatures \cup {get_image_signature(case.image_paths)}
         /\ UNCHANGED removed_cases

ValidateCase ==
    /\ pc = "validate"
    /\ idx < Len(data)
    /\ IF case_raises(data[idx + 1])
       THEN /\ pc' = "raised"
            /\ UNCHANGED <<valid_cases, removed_cases, used_image_signatures>>
       ELSE /\ pc' = "validate"
            /\ Verdict(data[idx + 1], idx,
                       case_reasons(data[idx + 1], used_image_signatures,
                                    min_similarity_variance))
    /\ idx' = idx + 1
    /\ UNCHANGED <<rng, pairVars, matchVars, inputVars, processVars, data, output_file,
                   paramVars, stringVars, runVars>>

\* After the loop: selection, the rejection entries of the cases left out, the
\* file, and the summary, which divides by len(data)
SelectCases ==
    /\ pc = "validate"
    /\ idx = Len(data)
    /\ \E sel \in {select_cases(valid_cases, max_cases, random_selection, rng)} :
          /\ valid_cases' = sel.valid_cases
          /\ removed_cases' = removed_cases \o ExtraEntries(sel.extra_cases)
          /\ rng' = sel.rng
          /\ output_file' = File(sel.valid_cases)
    /\ pc' = IF data = <<>> THEN "raised" ELSE "done"
    /\ UNCHANGED <<idx, pairVars, matchVars, inputVars, processVars, data,
                   used_image_signatures, paramVars, stringVars, runVars>>

\* The function is called again on the same file with the same parameters;
\* the generator is in whatever state the first call left it, or in any
\* state if the process is a new one
RunAgain ==
    /\ pc = "done"
    /\ run = 1
    /\ run' = 2
    /\ first_run' = [valid_cases |-> valid_cases, removed_cases |-> removed_cases,
                     output_file |-> output_file]
    /\ rng' \in RngStates
    /\ pc' = "step2"
    /\ UNCHANGED <<idx, pairVars, matchVars, inputVars, processVars, validateVars,
                   paramVars, stringVars>>

\* main() is run again on the same two files; nothing seeds the generator
\* before step 1
RunPipelineAgain ==
    /\ pc = "done"
    /\ run = 1
    /\ run' = 2
    /\ first_run' = [valid_cases |-> valid_cases, removed_cases |-> removed_cases,
                     output_file |-> output_file]
    /\ rng' \in RngStates
    /\ idx' = 0
    /\ processed_cases' = <<>>
    /\ pc' = "step1"
    /\ UNCHANGED <<pairVars, matchVars, inputVars, temp_file, validateVars, paramVars,
                   stringVars>>

\* One call of validate_and_filter_data on any file
InitValidate ==
    /\ pc = "step2"
    /\ temp_file \in { File(l) : l \in ListsOver(CaseVariants, MaxData) }
    /\ max_cases \in 1..MaxCases
    /\ min_similarity_variance \in MinVariances
    /\ random_selection \in BOOLEAN
    /\ random_seed = 0
    /\ rng = 0
    /\ idx = 0
    /\ medical_data = <<>>
    /\ NoPairCall /\ NoMatchCall /\ NoStep1 /\ NoStep2 /\ FirstRun /\ NoStringCall

NextValidate == BeginValidate \/ ValidateCase \/ SelectCases

SpecValidate == InitValidate /\ [][NextValidate]_vars

\* Two calls of validate_and_filter_data on the same file of cases that pass
\* every rule
InitSelect ==
    /\ pc = "step2"
    /\ temp_file \in { File(l) : l \in NumberedCases \cup RangedCases }
    /\ max_cases \in 1..MaxCases
    /\ min_similarity_variance = 0
    /\ random_selection \in BOOLEAN
    /\ random_seed \in Seeds
    /\ rng \in RngStates
    /\ idx = 0
    /\ medical_data = <<>>
    /\ NoPairCall /\ NoMatchCall /\ NoStep1 /\ NoStep2 /\ FirstRun /\ NoStringCall

NextSelect == BeginValidate \/ ValidateCase \/ SelectCases \/ RunAgain

SpecSelect == InitSelect /\ [][NextSelect]_vars

\* Two runs of main() on the same files, with the max_cases of main() and
\* with a max_cases below the number of samples
InitPipeline ==
    /\ pc = "step1"
    /\ per_sample_results \in ListsOver(PipelineSamples, MaxSamples)
    /\ medical_data \in Pools
    /\ processed_cases = <<>>
    /\ temp_file = NoFile
    /\ rng \in RngStates
    /\ idx = 0
    /\ max_cases \in {1, MainMaxCases}
    /\ min_similarity_variance = 0
    /\ random_selection = TRUE
    /\ random_seed = MainSeed
    /\ NoPairCall /\ NoMatchCall /\ NoStep2 /\ FirstRun /\ NoStringCall

NextPipeline ==
    \/ ProcessSample
    \/ FinishProcess
    \/ BeginValidate
    \/ ValidateCase
    \/ SelectCases
    \/ RunPipelineAgain

SpecPipeline == InitPipeline /\ [][NextPipeline]_vars

\* One call of validate_and_filter_data, on any file or as step 2 of main()
InitCases == InitValidate \/ InitPipeline

NextCases ==
    \/ ProcessSample
    \/ FinishProcess
    \/ BeginValidate
    \/ ValidateCase
    \/ SelectCases

SpecCases == InitCases /\ [][NextCases]_vars

----------------------------------------------------------------------------
(* Specification of the string functions: normalize_diagnosis applied to   *)
(* any string and to its own result, and calculate_jaccard_similarity      *)
(* applied to a string and itself, the empty string or a one-word string   *)

InitStrings ==
    /\ pc = "call_string"
    /\ str1 \in Strings
    /\ str2 \in {str1, <<>>, <<"a">>}
    /\ normalized = <<>>
    /\ renormalized = <<>>
    /\ jaccard = <<0, 1>>
    /\ rng = 0
    /\ idx = 0
    /\ medical_data = <<>>
    /\ temp_file = NoFile
    /\ NoPairCall /\ NoMatchCall /\ NoStep1 /\ NoStep2 /\ DefaultParams /\ FirstRun

NormalizeDiagnosis ==
    /\ pc = "call_string"
    /\ normalized' = normalize_diagnosis(str1)
    /\ pc' = "normalized"
    /\ UNCHANGED <<rng, idx, pairVars, matchVars, inputVars, processVars, validateVars,
                   paramVars, runVars, str1, str2, renormalized, jaccard>>

\* normalize_diagnosis applied to what it returned
NormalizeAgain ==
    /\ pc = "normalized"
    /\ renormalized' = normalize_diagnosis(normalized)
    /\ pc' = "renormalized"
    /\ UNCHANGED <<rng, idx, pairVars, matchVars, inputVars, processVars, validateVars,
                   paramVars, runVars, str1, str2, normalized, jaccard>>

CalculateJaccardSimilarity ==
    /\ pc = "call_string"
    /\ jaccard' = calculate_jaccard_similarity(str1, str2)
    /\ pc' = "scored"
    /\ UNCHANGED <<rng, idx, pairVars, matchVars, inputVars, processVars, validateVars,
                   paramVars, runVars, str1, str2, normalized, renormalized>>

NextStrings == NormalizeDiagnosis \/ NormalizeAgain \/ CalculateJaccardSimilarity

SpecStrings == InitStrings /\ [][NextStrings]_vars
----------------------------------------------------------------------------
(* Claims about the pair selector                                          *)

Returned == pc = "returned" /\ ~task3.raised

Disjoint(c1, c2) == c1.pred_idx # c2.pred_idx /\ c1.truth_idx # c2.truth_idx

HasDisjointCandidates(cands) ==
    \E i, j \in 1..Len(cands) : Disjoint(cands[i], cands[j])

FromCandidate(pair, c) ==
    pair.predicted.s = c.predicted /\ pair.ground_truth.s = c.ground_truth

\* C1: when at least two of the candidates that survive filtering differ in
\* both prediction index and truth index, the two returned pairs are built from
\* two candidates that share neither index.
C1_DisjointPairs ==
    (Returned /\ Len(task3.all_pairs) >= 2 /\ HasDisjointCandidates(task3.all_pairs))
    => \E i, j \in 1..Len(task3.all_pairs) :
          /\ Disjoint(task3.all_pairs[i], task3.all_pairs[j])
          /\ task3.combo = <<i, j>>
          /\ FromCandidate(task3.pairs[1], task3.all_pairs[i])
          /\ FromCandidate(task3.pairs[2], task3.all_pairs[j])

\* C1 witness: a best combination was returned although two candidates that
\* share an index are further apart in similarity than the chosen two.
C1_Witness ==
    /\ Returned /\ task3.path = "best"
    /\ \E i, j \in 1..Len(task3.all_pairs) :
          /\ ~Disjoint(task3.all_pairs[i], task3.all_pairs[j])
          /\ Abs(task3.all_pairs[i].similarity - task3.all_pairs[j].similarity)
               > Abs(task3.pairs[1].similarity.n - task3.pairs[2].similarity.n)

\* The similarity C5 states for cell (i, j): the matrix entry when the matrix
\* is a list whose row i is a list holding a number at j, the Jaccard score
\* otherwise; both as stored, rounded to four decimals.
C5_Expected(m, i, j, pred, truth) ==
    LET jac == calculate_jaccard_similarity(pred, truth)
    IN  IF /\ m.kind = "list"
           /\ i < Len(m.rows)
           /\ m.rows[i + 1].kind = "list"
           /\ j < Len(m.rows[i + 1].cells)
           /\ m.rows[i + 1].cells[j + 1].kind = "num"
        THEN Round4(m.rows[i + 1].cells[j + 1].v, 100000)
        ELSE Round4(jac[1], jac[2])

\* C5: no call raises, whatever the matrix is, and every candidate (and every
\* default pair) carries the matrix entry of its cell when that entry exists and
\* the Jaccard score otherwise.
C5_MatrixFallback ==
    pc = "returned" =>
      /\ ~task3.raised
      /\ \A k \in 1..Len(task3.all_pairs) :
            LET c == task3.all_pairs[k]
                s == IF c.normalized THEN c.similarity_original ELSE c.similarity
            IN  s = C5_Expected(similarity_matrix, c.pred_idx, c.truth_idx,
                                c.predicted, c.ground_truth)
      /\ task3.path = "default" =>
            \A k \in 1..2 :
               LET i == IF pred_diff_list = <<>> THEN 0
                        ELSE Min2(k - 1, Len(pred_diff_list) - 1)
                   j == IF truth_diff_list = <<>> THEN 0
                        ELSE Min2(k - 1, Len(truth_diff_list) - 1)
               IN  task3.pairs[k].similarity.n =
                      C5_Expected(similarity_matrix, i, j, task3.pairs[k].predicted.s,
                                  task3.pairs[k].ground_truth.s)

Originals(cands) == [k \in 1..Len(cands) |-> cands[k].similarity_original]

Normalized(cands) == cands # <<>> /\ \A k \in 1..Len(cands) : cands[k].normalized

\* C6 as stated: the normalized similarity of every candidate is exactly
\* (s - min) / (max - min), and 0.5 when all similarities are equal.
C6_ExactMinMax ==
    (Returned /\ Normalized(task3.all_pairs)) =>
      LET lo == SeqMin(Originals(task3.all_pairs))
          hi == SeqMax(Originals(task3.all_pairs))
      IN  \A k \in 1..Len(task3.all_pairs) :
            LET c == task3.all_pairs[k]
            IN  /\ 0 <= c.similarity_normalized /\ c.similarity_normalized <= 10000
                /\ IF hi = lo THEN c.similarity_normalized = 5000
                   ELSE c.similarity_normalized * (hi - lo)
                          = 10000 * (c.similarity_original - lo)

\* C6 amended: the normalized similarity of every candidate lies in [0,1] and is
\* (s - min) / (max - min) rounded to four decimals (the multiple of 1e-4 nearest
\* to it), and it is 0.5 for every candidate when all similarities are equal.
C6_RoundedMinMax ==
    (Returned /\ Normalized(task3.all_pairs)) =>
      LET lo == SeqMin(Originals(task3.all_pairs))
          hi == SeqMax(Originals(task3.all_pairs))
      IN  \A k \in 1..Len(task3.all_pairs) :
            LET c == task3.all_pairs[k]
            IN  /\ 0 <= c.similarity_normalized /\ c.similarity_normalized <= 10000
                /\ IF hi = lo THEN c.similarity_normalized = 5000
                   ELSE 2 * Abs(c.similarity_normalized * (hi - lo)
                                  - 10000 * (c.similarity_original - lo)) <= hi - lo

\* C6 witness: a normalized candidate list with a value strictly between the
\* minimum and the maximum whose ratio is not a multiple of 1e-4.
C6_Witness ==
    /\ Returned /\ Normalized(task3.all_pairs)
    /\ LET lo == SeqMin(Originals(task3.all_pairs))
           hi == SeqMax(Originals(task3.all_pairs))
       IN  \E k \in 1..Len(task3.all_pairs) :
              /\ hi # lo
              /\ (10000 * (task3.all_pairs[k].similarity_original - lo)) % (hi - lo) # 0

\* C6 witness, second case: all similarities equal, every normalized value 0.5
C6_WitnessEqual ==
    /\ Returned /\ Normalized(task3.all_pairs)
    /\ SeqMin(Originals(task3.all_pairs)) = SeqMax(Originals(task3.all_pairs))


----------------------------------------------------------------------------
(* Claims about the case validator                                         *)

\* The cases of data on which the body of the validation loop has run to its
\* end: idx counts the iterations begun, and the last one may have raised
Judged(k) == k <= idx /\ ~(pc = "raised" /\ k = idx)

Reasons(entry) == { entry.reasons[r] : r \in 1..Len(entry.reasons) }

\* removed_cases holds an entry of the case at position k of data with one of
\* the given reasons
RemovedFor(k, reasons) ==
    \E e \in 1..Len(removed_cases) :
       /\ removed_cases[e].case_id = case_id_of(data[k], k - 1)
       /\ removed_cases[e].task3_pairs = Get(data[k].task3_pairs, JList(<<>>))
       /\ removed_cases[e].similarity_variance = Get(data[k].similarity_variance, JNum(0))
       /\ Reasons(removed_cases[e]) \cap reasons # {}

Accepted(case) ==
    \/ \E v \in 1..Len(valid_cases) : valid_cases[v] = case
    \/ \E v \in 1..Len(output_file.cases) : output_file.cases[v] = case

C2_Fields == {"pair_id", "predicted", "ground_truth", "similarity"}

C2_Complete(pair) ==
    /\ pair.kind = "dict"
    /\ \A f \in C2_Fields : pair[f].kind \notin {"missing", "none"}

C2_TwoPairs(case) ==
    /\ case.task3_pairs.kind = "list"
    /\ Len(case.task3_pairs.items) = 2
    /\ \A k \in 1..2 : C2_Complete(case.task3_pairs.items[k])

C2_SameId(case) ==
    case.task3_pairs.items[1].pair_id = case.task3_pairs.items[2].pair_id

C2_SameContent(case) ==
    /\ case.task3_pairs.items[1].predicted = case.task3_pairs.items[2].predicted
    /\ case.task3_pairs.items[1].ground_truth = case.task3_pairs.items[2].ground_truth

C2_WellPaired(case) ==
    /\ C2_TwoPairs(case)
    /\ ~C2_SameId(case)
    /\ ~C2_SameContent(case)
    /\ \A k \in 1..2 :
          ~are_diagnoses_same(Text(case.task3_pairs.items[k].predicted),
                              Text(case.task3_pairs.items[k].ground_truth), 85)

\* C2: every case in the valid list (and in the file written from it) has
\* exactly two pairs, each with pair_id, predicted, ground_truth and similarity
\* present and non-null, with different pair_id, not identical in (predicted,
\* ground_truth), and neither pair's predicted and ground_truth the same
\* diagnosis at threshold 0.85; and a case whose two pairs have the same pair_id
\* or the same content is rejected with that reason.
C2_ValidPairs ==
    /\ \A v \in 1..Len(valid_cases) : C2_WellPaired(valid_cases[v])
    /\ \A v \in 1..Len(output_file.cases) : C2_WellPaired(output_file.cases[v])
    /\ \A k \in 1..Len(data) :
          (Judged(k) /\ C2_TwoPairs(data[k])) =>
             /\ C2_SameId(data[k]) => RemovedFor(k, {"pair_id identical"})
             /\ (~C2_SameId(data[k]) /\ C2_SameContent(data[k]))
                   => RemovedFor(k, {"pair content identical"})

\* C2 witness: the function returned with a case accepted, a case rejected for
\* its two pairs having the same pair_id, or one for their having the same
\* content.
C2_Witness ==
    /\ pc = "done"
    /\ valid_cases # <<>>
    /\ \E k \in 1..Len(data) :
          /\ C2_TwoPairs(data[k])
          /\ C2_SameId(data[k]) \/ C2_SameContent(data[k])
          /\ RemovedFor(k, {"pair_id identical", "pair content identical"})

\* C3: every case of the input that holds a null at any depth is taken through
\* the validation pass (the pass does not stop at it), entered in the removed
\* list with the reason for nulls, and never in the valid list.
C3_NullRejected ==
    \A k \in 1..Len(data) :
       (k <= idx /\ has_none_values(data[k])) =>
          /\ Judged(k)
          /\ RemovedFor(k, {"contains None"})
          /\ ~Accepted(data[k])

\* The part of C3 that the code keeps: no case holding a null is ever in the
\* valid list or in the output file
C3_NullNeverAccepted ==
    \A k \in 1..Len(data) : has_none_values(data[k]) => ~Accepted(data[k])

C7_EmptyImages(case) == case.image_paths = JList(<<>>)

C7_Rejected ==
    /\ \A v \in 1..Len(valid_cases) : ~C7_EmptyImages(valid_cases[v])
    /\ \A v \in 1..Len(output_file.cases) : ~C7_EmptyImages(output_file.cases[v])
    /\ \A k \in 1..Len(data) :
          (Judged(k) /\ C7_EmptyImages(data[k])) => RemovedFor(k, {"no image paths"})

\* What step 1 gives case k when the matcher finds nothing for its sample
C7_Unmatched(k) ==
    match_case_by_gt(per_sample_results[k], medical_data) = NoMatch

C7_Assembled ==
    \A k \in 1..Len(processed_cases) :
       C7_Unmatched(k) =>
          IF k - 1 < Len(medical_data)
          THEN /\ processed_cases[k].image_paths
                    = replace_path_prefix(Get(medical_data[k].image_paths, JList(<<>>)))
               /\ processed_cases[k].prompt = Get(medical_data[k].prompt, JStr(<<>>))
          ELSE /\ processed_cases[k].image_paths = JList(<<>>)
               /\ processed_cases[k].prompt = JStr(<<>>)

\* C7: a case whose image_paths is the empty list is never in the valid list
\* nor in the output file, whatever its other fields, and once the loop is past
\* it the removed list holds it with the reason for missing images; a sample the
\* matcher finds nothing for is assembled with the image paths (prefix replaced)
\* and prompt of the reference at its own index, and with an empty image list
\* and an empty prompt when that index is past the end of the pool.
C7_EmptyImagesRejected == C7_Rejected /\ C7_Assembled

\* C7 witness: main() ended, and a sample without a match whose index is past
\* the end of the pool was assembled with no images and an empty prompt and
\* rejected for it.
C7_Witness ==
    /\ pc = "done"
    /\ \E k \in 1..Len(data) :
          /\ k <= Len(processed_cases)
          /\ k > Len(medical_data)
          /\ C7_Unmatched(k)
          /\ data[k] = processed_cases[k]
          /\ C7_EmptyImages(data[k])
          /\ data[k].prompt = JStr(<<>>)
          /\ RemovedFor(k, {"no image paths"})

\* The cases of the input that pass every rule, in order, from position k on
RECURSIVE C8_Passing(_, _, _)
C8_Passing(cases, k, used) ==
    IF k > Len(cases) THEN <<>>
    ELSE IF case_reasons(cases[k], used, min_similarity_variance) = <<>>
    THEN <<cases[k]>>
           \o C8_Passing(cases, k + 1,
                         used \cup {get_image_signature(cases[k].image_paths)})
    ELSE C8_Passing(cases, k + 1, used)

\* C8: when at most max_cases cases pass validation, the valid list after
\* selection, which is what is written to the output file and returned, is the
\* list of the cases that passed: none added, none dropped, each unchanged,
\* under either selection policy.
C8_AllKept ==
    (output_file.written /\ Len(C8_Passing(data, 1, {})) <= max_cases) =>
       /\ valid_cases = C8_Passing(data, 1, {})
       /\ output_file.cases = C8_Passing(data, 1, {})

\* C8 witness: the function returned under the stratified policy with as many
\* passing cases as max_cases allows, more than one, next to a rejected case or
\* none.
C8_Witness ==
    /\ pc = "done"
    /\ random_selection
    /\ max_cases > 1
    /\ Len(C8_Passing(data, 1, {})) = max_cases
    /\ Len(valid_cases) = max_cases

\* C9: with random_selection on, the second run on the same file with the same
\* seed returns the list of cases the first run returned, writes the same file
\* and removes the same cases, whatever state the generator was in.
C9_SameSelection ==
    (pc = "done" /\ run = 2 /\ random_selection) =>
       /\ valid_cases = first_run.valid_cases
       /\ output_file = first_run.output_file
       /\ removed_cases = first_run.removed_cases

\* C9 witness: the second run returned after sampling from more valid cases
\* than max_cases, and left out a case that sequential selection would keep.
C9_Witness ==
    /\ pc = "done" /\ run = 2 /\ random_selection
    /\ Len(data) > max_cases
    /\ Len(valid_cases) = max_cases
    /\ valid_cases # SubSeq(sort_by_dispersion(data), 1, max_cases)

----------------------------------------------------------------------------
(* Claims about the case matcher                                           *)

\* The labels of an evaluation record that has a ground-truth list
C4_Labels ==
    IF case_eval.ground_truth_differential.kind = "list"
    THEN case_eval.ground_truth_differential.items
    ELSE <<>>

\* The score of the claim, as a fraction: the labels equivalent to at least one
\* label_* value of the reference, over the longer of the two lists
C4_Num(item) ==
    Cardinality({ i \in 1..Len(C4_Labels) :
                    \E j \in 1..Len(label_values(item)) :
                       diagnoses_match(C4_Labels[i], label_values(item)[j], 80) })

C4_Den(item) == Max2(Len(C4_Labels), Len(label_values(item)))

C4_Higher(a, b) == C4_Num(a) * C4_Den(b) > C4_Num(b) * C4_Den(a)

\* The first position of the pool that attains the maximum score
C4_First ==
    CHOOSE i \in 1..Len(medical_data) :
       /\ \A j \in 1..Len(medical_data) : ~C4_Higher(medical_data[j], medical_data[i])
       /\ \A j \in 1..(i - 1) : C4_Higher(medical_data[i], medical_data[j])

\* C4: match_case_by_gt returns the first record of the pool that attains the
\* maximum score when that maximum is at least 0.5, and no match otherwise, also
\* when the evaluation record has no ground-truth list or an empty one.
C4_FirstBest ==
    (pc = "matched" /\ case_eval.ground_truth_differential.kind # "str") =>
       IF C4_Labels = <<>> \/ medical_data = <<>>
       THEN matched_item = NoMatch
       ELSE IF 2 * C4_Num(medical_data[C4_First]) >= C4_Den(medical_data[C4_First])
       THEN matched_item = C4_First - 1
       ELSE matched_item = NoMatch

\* C4 witness: three evaluation labels, the returned reference matches two of
\* them (score 2/3), no reference scores higher and a later one scores the same.
C4_Witness ==
    /\ pc = "matched"
    /\ Len(C4_Labels) = 3
    /\ matched_item # NoMatch
    /\ C4_Num(medical_data[matched_item + 1]) = 2
    /\ C4_Den(medical_data[matched_item + 1]) = 3
    /\ \E j \in (matched_item + 2)..Len(medical_data) :
          /\ ~C4_Higher(medical_data[j], medical_data[matched_item + 1])
          /\ ~C4_Higher(medical_data[matched_item + 1], medical_data[j])

----------------------------------------------------------------------------
(* Claims about the pipeline                                               *)

\* generate_task3_pairs as step 1 calls it on a sample, the generator in state s
C10_Pairs(sample, s) ==
    generate_task3_pairs(list_or_empty(sample.predicted_differential),
                         list_or_empty(sample.ground_truth_differential),
                         sample.similarity_matrix, s)

\* The call takes the shuffle fallback: two candidates or more, no two of them
\* disjoint (which candidates there are does not depend on the generator)
C10_Shuffled(sample) == C10_Pairs(sample, 0).path = "shuffle"

C10_SamePairs(sample) ==
    \A s \in RngStates : C10_Pairs(sample, s).pairs = C10_Pairs(sample, 0).pairs

C10_SameRun ==
    /\ output_file = first_run.output_file
    /\ valid_cases = first_run.valid_cases
    /\ removed_cases = first_run.removed_cases

\* C10 as stated: the second run of the pipeline on the same inputs with the
\* same seed returns and writes what the first did, the two pairs of every case
\* and which of them is A and which is B included.
C10_SameOutput ==
    (pc = "done" /\ run = 2) =>
       /\ output_file = first_run.output_file
       /\ valid_cases = first_run.valid_cases

\* C10 amended: the second run ends with the output of the first when no sample
\* takes the shuffle fallback of generate_task3_pairs, and generate_task3_pairs
\* returns the same two pairs in the same order, whatever the state of the
\* generator, for every sample that does not take that fallback.
C10_SameOutputUnlessShuffled ==
    (pc = "done" /\ run = 2) =>
       /\ (\A k \in 1..Len(per_sample_results) : ~C10_Shuffled(per_sample_results[k]))
             => C10_SameRun
       /\ \A k \in 1..Len(per_sample_results) :
             ~C10_Shuffled(per_sample_results[k]) => C10_SamePairs(per_sample_results[k])

\* C10 witness: the second run ended, no sample took the shuffle fallback, one
\* took the best combination, two cases were valid and one was sampled.
C10_Witness ==
    /\ pc = "done" /\ run = 2
    /\ \A k \in 1..Len(per_sample_results) : ~C10_Shuffled(per_sample_results[k])
    /\ \E k \in 1..Len(per_sample_results) :
          C10_Pairs(per_sample_results[k], 0).path = "best"
    /\ Len(valid_cases) = 1
    /\ \E e \in 1..Len(removed_cases) : "not selected" \in Reasons(removed_cases[e])

----------------------------------------------------------------------------
(* Claims C11 to C20                                                       *)

\* C11: every fatal error of a run occurs before an output file of the run is
\* written: a call of validate_and_filter_data that ends in an exception has
\* not written its output file.
C11_FatalBeforeWrite == pc = "raised" => ~output_file.written

\* C12: normalize_diagnosis is idempotent: applied to its own result it
\* returns that result.
C12_Idempotent == pc = "renormalized" => renormalized = normalized

\* A word character (\w) occurs in str1
C13_HasWord == \E i \in 1..Len(str1) : str1[i] \in {"a", "B", "x"}

C13_One == jaccard[1] = jaccard[2] /\ jaccard[2] > 0

C13_Zero == jaccard[1] = 0 /\ jaccard[2] > 0

\* C13 as stated: calculate_jaccard_similarity(a, a) is 1.0 for every
\* non-empty string a, and calculate_jaccard_similarity("", "") is 0.0.
C13_SelfSimilarity ==
    pc = "scored" /\ str1 = str2 => IF str1 # <<>> THEN C13_One ELSE C13_Zero

\* C13, amended: calculate_jaccard_similarity(a, a) is 1.0 for every string a
\* in which a word character occurs, and 0.0 for every other string, the
\* empty string included.
C13_SelfSimilarityOfWords ==
    pc = "scored" /\ str1 = str2 => IF C13_HasWord THEN C13_One ELSE C13_Zero

\* A string with a word, white space and punctuation has been compared to itself
C13_Witness ==
    /\ pc = "scored" /\ str1 = str2 /\ C13_HasWord /\ C13_One
    /\ \E i \in 1..Len(str1) : str1[i] = "."
    /\ \E i \in 1..Len(str1) : str1[i] = " "

\* The candidates the strict pass keeps on the lists of the state
C14_StrictPass ==
    enumerate_pairs(pred_diff_list, truth_diff_list, similarity_matrix, 85, 70).pairs

\* The overlap check as C14 states it: both token sets non-empty, and Jaccard
\* >= 0.70 or at least 70% of the smaller token set in the larger
C14_Overlap(pred, truth) ==
    LET w1 == Words(normalize_diagnosis(pred))
        w2 == Words(normalize_diagnosis(truth))
        smaller == IF Cardinality(w1) <= Cardinality(w2) THEN w1 ELSE w2
        larger  == IF Cardinality(w1) <= Cardinality(w2) THEN w2 ELSE w1
    IN  /\ w1 # {} /\ w2 # {}
        /\ \/ 10 * Cardinality(w1 \cap w2) >= 7 * Cardinality(w1 \cup w2)
           \/ 10 * Cardinality(smaller \cap larger) >= 7 * Cardinality(smaller)

C14_Cells(cands) == { <<cands[k].pred_idx, cands[k].truth_idx>> : k \in 1..Len(cands) }

C14_Example ==
    /\ pred_diff_list = ExamplePredicted
    /\ truth_diff_list = ExampleTruth
    /\ similarity_matrix = MatrixNone

\* What C14 says of the example: five candidates without (psoriasis, psoriasis
\* vulgaris), each with its Jaccard score, and two returned pairs that share no
\* index and whose normalized similarities differ by 1.0
C14_ExampleResult ==
    /\ task3.path = "best" /\ ~task3.retried
    /\ C14_Cells(task3.all_pairs) = {<<0, 0>>, <<0, 1>>, <<1, 0>>, <<2, 0>>, <<2, 1>>}
    /\ Len(task3.all_pairs) = 5
    /\ \A k \in 1..5 :
          LET c == task3.all_pairs[k]
              jac == calculate_jaccard_similarity(c.predicted, c.ground_truth)
          IN  c.similarity_original = Round4(jac[1], jac[2])
    /\ \E i, j \in 1..5 :
          /\ task3.combo = <<i, j>>
          /\ Disjoint(task3.all_pairs[i], task3.all_pairs[j])
          /\ FromCandidate(task3.pairs[1], task3.all_pairs[i])
          /\ FromCandidate(task3.pairs[2], task3.all_pairs[j])
          /\ task3.pairs[1].similarity.n = task3.all_pairs[i].similarity_normalized
          /\ task3.pairs[2].similarity.n = task3.all_pairs[j].similarity_normalized
          /\ Abs(task3.all_pairs[i].similarity_normalized
                   - task3.all_pairs[j].similarity_normalized) = 10000

\* C14: no candidate the strict pass keeps is flagged by are_diagnoses_same at
\* 0.85 or by the overlap check at 0.70; when the strict pass keeps two or more
\* they are the candidates of the selection; and on the example the result is
\* the one C14 describes.
C14_StrictFilter ==
    pc = "returned" =>
      /\ \A k \in 1..Len(C14_StrictPass) :
            /\ ~are_diagnoses_same(C14_StrictPass[k].predicted,
                                   C14_StrictPass[k].ground_truth, 85)
            /\ ~C14_Overlap(C14_StrictPass[k].predicted, C14_StrictPass[k].ground_truth)
      /\ (~task3.raised /\ ~task3.retried /\ task3.path \in {"best", "shuffle"})
            => /\ Len(task3.all_pairs) = Len(C14_StrictPass)
               /\ C14_Cells(task3.all_pairs) = C14_Cells(C14_StrictPass)
      /\ C14_Example => C14_ExampleResult

\* The call on the example has returned (eczema, psoriasis vulgaris) as A and
\* (contact dermatitis, atopic dermatitis) as B
C14_Witness ==
    /\ Returned /\ C14_Example
    /\ task3.pairs[1].predicted.s = ExamplePredicted[1]
    /\ task3.pairs[1].ground_truth.s = ExampleTruth[2]
    /\ task3.pairs[2].predicted.s = ExamplePredicted[3]
    /\ task3.pairs[2].ground_truth.s = ExampleTruth[1]
    /\ task3.pairs[1].similarity.n = 0
    /\ task3.pairs[2].similarity.n = 10000

C15_LongLists == Len(pred_diff_list) >= 2 /\ Len(truth_diff_list) >= 2

\* The candidates that pass the relaxed filters on the lists of the state
C15_RelaxedPass ==
    enumerate_pairs(pred_diff_list, truth_diff_list, similarity_matrix, 95, 80).pairs

\* C15: with fewer than 2 candidates after the strict filters the relaxed pass
\* runs, and with fewer than 2 candidates passing the relaxed filters as well
\* the default pairs are returned.
C15_RelaxedThenDefault ==
    (Returned /\ C15_LongLists /\ Len(C14_StrictPass) < 2) =>
      /\ task3.retried
      /\ Len(C15_RelaxedPass) < 2 => task3.path = "default"

\* The combinations i < j of candidates that share no index
C16_Combos ==
    { c \in (1..Len(task3.all_pairs)) \X (1..Len(task3.all_pairs)) :
        /\ c[1] < c[2]
        /\ Disjoint(task3.all_pairs[c[1]], task3.all_pairs[c[2]]) }

C16_Diff(c) ==
    Abs(task3.all_pairs[c[1]].similarity_normalized
          - task3.all_pairs[c[2]].similarity_normalized)

C16_Before(c, d) == c[1] < d[1] \/ (c[1] = d[1] /\ c[2] <= d[2])

\* C16: the returned combination shares no index, no combination that shares
\* no index has a larger difference of normalized similarity, none of the same
\* difference comes earlier in the enumeration, and its first candidate is pair
\* A and its second pair B.
C16_FirstMaximal ==
    (Returned /\ C16_Combos # {}) =>
      /\ task3.path = "best"
      /\ task3.combo \in C16_Combos
      /\ \A c \in C16_Combos :
            /\ C16_Diff(c) <= C16_Diff(task3.combo)
            /\ C16_Diff(c) = C16_Diff(task3.combo) => C16_Before(task3.combo, c)
      /\ task3.pairs[1].pair_id.s = <<"A">>
      /\ task3.pairs[2].pair_id.s = <<"B">>
      /\ FromCandidate(task3.pairs[1], task3.all_pairs[task3.combo[1]])
      /\ FromCandidate(task3.pairs[2], task3.all_pairs[task3.combo[2]])

\* A later combination has the difference of the returned one, and another has
\* a smaller difference
C16_Witness ==
    /\ Returned /\ task3.path = "best"
    /\ \E c \in C16_Combos : c # task3.combo /\ C16_Diff(c) = C16_Diff(task3.combo)
    /\ \E c \in C16_Combos : C16_Diff(c) < C16_Diff(task3.combo)

C17_ShortList == Len(pred_diff_list) < 2 \/ Len(truth_diff_list) < 2

\* Entry min(i, len - 1) of a list, the placeholder when the list is empty
C17_Entry(list, i, placeholder) ==
    IF list = <<>> THEN placeholder ELSE list[Min2(i, Len(list) - 1) + 1]

C17_Index(list, i) == IF list = <<>> THEN 0 ELSE Min2(i, Len(list) - 1)

\* C17: with a list of fewer than 2 entries the call returns, for i = 0 and 1,
\* the pair of the entries min(i, len - 1) of the two lists, a placeholder for
\* an empty list, with pair_id A and B and the similarity of that cell: the
\* matrix entry when the cell is within the matrix, the Jaccard score otherwise.
C17_DefaultPairs ==
    (Returned /\ C17_ShortList) =>
      /\ task3.path = "default"
      /\ Len(task3.pairs) = 2
      /\ \A k \in 1..2 :
            LET pred  == C17_Entry(pred_diff_list, k - 1,
                                   <<"wu", "yu", "ce", "zhen", "duan">>)
                truth == C17_Entry(truth_diff_list, k - 1,
                                   <<"wu", "zhen", "shi", "zhen", "duan">>)
            IN  /\ task3.pairs[k].pair_id.s = (IF k = 1 THEN <<"A">> ELSE <<"B">>)
                /\ task3.pairs[k].predicted.s = pred
                /\ task3.pairs[k].ground_truth.s = truth
                /\ task3.pairs[k].similarity.n =
                      C5_Expected(similarity_matrix, C17_Index(pred_diff_list, k - 1),
                                  C17_Index(truth_diff_list, k - 1), pred, truth)

\* One prediction and two truths with a matrix that has both cells: pair B
\* repeats the prediction and the two similarities are the two matrix entries
C17_Witness ==
    /\ Returned /\ task3.path = "default"
    /\ Len(pred_diff_list) = 1 /\ Len(truth_diff_list) = 2
    /\ similarity_matrix.kind = "list" /\ Len(similarity_matrix.rows) >= 1
    /\ similarity_matrix.rows[1].kind = "list"
    /\ Len(similarity_matrix.rows[1].cells) = 2
    /\ task3.pairs[1].predicted = task3.pairs[2].predicted
    /\ task3.pairs[1].similarity.n # task3.pairs[2].similarity.n

\* similarity_variance of the cases read, by position
C18_Variance(k) == Num0(data[k].similarity_variance)

\* The k-th smallest similarity_variance
C18_Kth(k) ==
    LET upto(x) == Cardinality({ i \in 1..Len(data) : C18_Variance(i) <= x })
        Values  == { C18_Variance(i) : i \in 1..Len(data) }
    IN  CHOOSE x \in Values :
           /\ upto(x) >= k
           /\ \A y \in Values : upto(y) >= k => x <= y

\* Four times the percentile 25 * q4 of the variances, linear interpolation
C18_Percentile4(q4) ==
    LET pos == (Len(data) - 1) * q4
        lo  == (pos \div 4) + 1
        hi  == Min2(lo + 1, Len(data))
    IN  4 * C18_Kth(lo) + (pos % 4) * (C18_Kth(hi) - C18_Kth(lo))

\* The three tiers, as positions in the input
C18_High == { k \in 1..Len(data) : 4 * C18_Variance(k) >= C18_Percentile4(3) }

C18_Low == { k \in 1..Len(data) : 4 * C18_Variance(k) < C18_Percentile4(2) }

C18_Medium == (1..Len(data)) \ (C18_High \cup C18_Low)

\* The number of cases of a tier in the selection
C18_Drawn(tier) ==
    Cardinality({ k \in tier : \E i \in 1..Len(valid_cases) : valid_cases[i] = data[k] })

\* The targets: 70% and 25% of max_cases, and what is left of max_cases
C18_TargetHigh == (7 * max_cases) \div 10

C18_TargetMedium == max_cases \div 4

C18_TargetLow == max_cases - C18_TargetHigh - C18_TargetMedium

\* A stratified selection among cases that all passed the rules
C18_Stratified ==
    /\ pc = "done" /\ random_selection /\ Len(data) > max_cases
    /\ Len(valid_cases) + Len(removed_cases) = Len(data)
    /\ \A i \in 1..Len(removed_cases) : removed_cases[i].reasons = <<"not selected">>

\* C18: each tier is drawn at least to its target clipped to its size; the
\* medium tier is drawn beyond its target only when no case of the high tier
\* is left, and the low tier only when none of the high and medium tiers is.
C18_TierPriority ==
    C18_Stratified =>
      /\ Len(valid_cases) = max_cases
      /\ C18_Drawn(C18_High) >= Min2(C18_TargetHigh, Cardinality(C18_High))
      /\ C18_Drawn(C18_Medium) >= Min2(C18_TargetMedium, Cardinality(C18_Medium))
      /\ C18_Drawn(C18_Medium) > C18_TargetMedium
            => C18_Drawn(C18_High) = Cardinality(C18_High)
      /\ C18_Drawn(C18_Low) > C18_TargetLow
            => /\ C18_Drawn(C18_High) = Cardinality(C18_High)
               /\ C18_Drawn(C18_Medium) = Cardinality(C18_Medium)

\* Cases i and j of the input have images and the same image signature
C19_SameSignature(i, j) ==
    /\ ListTruthy(data[i].image_paths) /\ ListTruthy(data[j].image_paths)
    /\ ~case_raises(data[i]) /\ ~case_raises(data[j])
    /\ get_image_signature(data[i].image_paths) = get_image_signature(data[j].image_paths)

\* Case j is the first of the input with its content
C19_FirstOfItsContent(j) == \A h \in 1..(j - 1) : data[h] # data[j]

\* Case j breaks none of the rules that look at the case alone
C19_PassesOtherRules(j) ==
    case_reasons(data[j], {}, min_similarity_variance) = <<>>

\* C19: of two cases of the input with the same image signature, the later
\* one is never kept, whatever became of the earlier one; when it breaks no
\* other rule and the loop is past it, it is in the removed list with the
\* reason for a duplicated image set.
C19_FirstOnlyKept ==
    \A j \in 1..Len(data) : \A i \in 1..(j - 1) :
       (C19_SameSignature(i, j) /\ C19_FirstOfItsContent(j) /\ C19_PassesOtherRules(j)) =>
          /\ ~Accepted(data[j])
          /\ Judged(j) => RemovedFor(j, {"image set duplicated"})

\* What the code keeps of C19: no two kept cases have the same image signature
C19_NoSignatureTwice ==
    \A v, w \in 1..Len(valid_cases) :
       (v # w) => get_image_signature(valid_cases[v].image_paths)
                    # get_image_signature(valid_cases[w].image_paths)

\* The rules of the validation loop
C20_Rules ==
    {"null", "pair list", "pair", "diagnosis", "image", "field", "dispersion", "duplicate"}

\* The reasons each rule gives
C20_ReasonsOf(rule) ==
    CASE rule = "null" -> {"contains None"}
      [] rule = "pair list" ->
            {"task3_pairs must be 2", "task3_pairs item is not a dict",
             "task3_pairs item lacks a field", "task3_pairs field is None",
             "pair_id identical", "pair content identical"}
      [] rule = "pair" -> {"pair predicted and truth the same"}
      [] rule = "diagnosis" -> {"diagnosis empty", "diagnosis identical"}
      [] rule = "image" -> {"no image paths"}
      [] rule = "field" ->
            {"missing required field: id", "missing required field: pmid",
             "missing required field: prompt"}
      [] rule = "dispersion" -> {"similarity variance too small"}
      [] rule = "duplicate" -> {"image set duplicated"}

\* A pair of the case has predicted and ground_truth the same at 0.85
C20_PairSame(case) ==
    /\ case.task3_pairs.kind = "list"
    /\ \E k \in 1..Len(case.task3_pairs.items) :
          /\ case.task3_pairs.items[k].kind = "dict"
          /\ are_diagnoses_same(Text(case.task3_pairs.items[k].predicted),
                                Text(case.task3_pairs.items[k].ground_truth), 85)

\* A case kept so far has the image signature of the case
C20_Duplicate(case) ==
    /\ ListTruthy(case.image_paths)
    /\ \E v \in 1..Len(valid_cases) :
          get_image_signature(valid_cases[v].image_paths)
             = get_image_signature(case.image_paths)

\* Whether the case breaks the rule, in the state before the loop body runs
C20_Breaks(rule, case) ==
    CASE rule = "null" -> has_none_values(case)
      [] rule = "pair list" ->
            IF C2_TwoPairs(case) THEN C2_SameId(case) \/ C2_SameContent(case) ELSE TRUE
      [] rule = "pair" -> C20_PairSame(case)
      [] rule = "diagnosis" ->
            \/ ~Truthy(case.predicted_diagnosis)
            \/ ~Truthy(case.ground_truth_diagnosis)
            \/ diagnoses_are_same(Text(case.predicted_diagnosis),
                                  Text(case.ground_truth_diagnosis))
      [] rule = "image" -> ~ListTruthy(case.image_paths)
      [] rule = "field" -> \E f \in {"id", "pmid", "prompt"} : ~Truthy(case[f])
      [] rule = "dispersion" ->
            Get(case.similarity_variance, JNum(0)).n < min_similarity_variance
      [] rule = "duplicate" -> C20_Duplicate(case)

C20_Broken(case) == { rule \in C20_Rules : C20_Breaks(rule, case) }

\* One run of the loop body to its end, on the case at position idx + 1
C20_Body ==
    LET case == data[idx + 1]
        entry == removed_cases'[Len(removed_cases')]
    IN  (pc = "validate" /\ pc' = "validate" /\ idx' = idx + 1) =>
           IF C20_Broken(case) = {}
           THEN /\ valid_cases' = Append(valid_cases, case)
                /\ removed_cases' = removed_cases
           ELSE /\ valid_cases' = valid_cases
                /\ Len(removed_cases') = Len(removed_cases) + 1
                /\ \A rule \in C20_Broken(case) :
                      Reasons(entry) \cap C20_ReasonsOf(rule) # {}

\* C20: every run of the loop body that completes checks every rule: a case
\* that breaks no rule is appended to the valid list, and a case that breaks
\* some is appended to the removed list with at least one reason of each rule
\* it breaks, and is not kept.
C20_EveryRuleChecked == [][C20_Body]_vars

\* C20 witness: the loop is past a case it kept and past a case it rejected
\* with the reasons of three rules: no image, a required field missing and
\* the dispersion below the minimum.
C20_Witness ==
    /\ pc = "validate"
    /\ valid_cases # <<>>
    /\ \E e \in 1..Len(removed_cases) :
          /\ "no image paths" \in Reasons(removed_cases[e])
          /\ "missing required field: prompt" \in Reasons(removed_cases[e])
          /\ "similarity variance too small" \in Reasons(removed_cases[e])
----------------------------------------------------------------------------
(* Claims about the sequential selection                                   *)

\* The dispersion score 0.6 * similarity_variance + 0.4 * similarity_range of
\* a case, in units of 1e-5 (similarity_variance is held in units of 1 / 20000,
\* similarity_range in units of 1e-4)
C21_Score(case) == 3 * Num0(case.similarity_variance) + 4 * Num0(case.similarity_range)

\* The position in the input of a case of the valid list
C21_Position(case) == CHOOSE k \in 1..Len(data) : data[k] = case

\* Case a is ahead of case b: a higher score, or the same and earlier in the
\* input
C21_Ahead(a, b) ==
    \/ C21_Score(a) > C21_Score(b)
    \/ C21_Score(a) = C21_Score(b) /\ C21_Position(a) < C21_Position(b)

C21_Kept == { valid_cases[v] : v \in 1..Len(valid_cases) }

C21_LeftOut == { data[k] : k \in 1..Len(data) } \ C21_Kept

\* A sequential selection among more cases than max_cases, all of which
\* passed the rules, each with its own id
C21_Sequential ==
    /\ pc = "done" /\ ~random_selection
    /\ Len(data) > max_cases
    /\ \A k \in 1..Len(data) :
          case_reasons(data[k], {}, min_similarity_variance) = <<>>
    /\ \A j, k \in 1..Len(data) : data[j] = data[k] => j = k

\* C21: with random_selection off and more passing cases than max_cases, the
\* valid list is max_cases cases of the input, each ahead of the next and of
\* every case left out (higher score first, input order among equal scores),
\* and the removed list holds one entry, "not selected", per case left out.
C21_TopByDispersion ==
    C21_Sequential =>
       /\ Len(valid_cases) = max_cases
       /\ C21_Kept \subseteq { data[k] : k \in 1..Len(data) }
       /\ \A v \in 1..(Len(valid_cases) - 1) :
             C21_Ahead(valid_cases[v], valid_cases[v + 1])
       /\ \A c \in C21_LeftOut : C21_Ahead(valid_cases[Len(valid_cases)], c)
       /\ output_file.cases = valid_cases
       /\ Len(removed_cases) = Cardinality(C21_LeftOut)
       /\ \A c \in C21_LeftOut :
             \E e \in 1..Len(removed_cases) :
                /\ removed_cases[e].case_id = c.pmid
                /\ removed_cases[e].reasons = <<"not selected">>

\* C21 witness: a sequential selection of two cases out of three ended; the
\* two kept have the same score, the earlier in the input first although its
\* similarity_variance is the lower, and the case left out has a
\* similarity_variance between theirs.
C21_Witness ==
    /\ C21_Sequential
    /\ Len(data) = 3 /\ Len(valid_cases) = 2
    /\ C21_Score(valid_cases[1]) = C21_Score(valid_cases[2])
    /\ Num0(valid_cases[1].similarity_variance) < Num0(valid_cases[2].similarity_variance)
    /\ \E c \in C21_LeftOut :
          Num0(c.similarity_variance) > Num0(valid_cases[1].similarity_variance)

----------------------------------------------------------------------------
(* Claims about the pairs generate_task3_pairs returns                     *)

\* C22: in every pair the call returns, on every path, predicted and
\* ground_truth are not the same diagnosis at 0.85.
C22_PairsDiffer ==
    Returned =>
       \A k \in 1..Len(task3.pairs) :
          ~are_diagnoses_same(task3.pairs[k].predicted.s,
                              task3.pairs[k].ground_truth.s, 85)

\* C24: every call that returns, returns exactly two pairs, the first with
\* pair_id A and the second with pair_id B, whatever the lists (empty lists
\* included) and the matrix, on the default path, the best combination and the
\* shuffle fallback.
C24_TwoPairsAB ==
    Returned =>
       /\ task3.path \in {"default", "best", "shuffle"}
       /\ Len(task3.pairs) = 2
       /\ task3.pairs[1].kind = "dict" /\ task3.pairs[2].kind = "dict"
       /\ task3.pairs[1].pair_id = JStr(<<"A">>)
       /\ task3.pairs[2].pair_id = JStr(<<"B">>)

\* C24 witness: a call on two lists of two entries returned through the
\* shuffle fallback: its candidates, two or more, all share an index.
C24_Witness ==
    /\ Returned /\ task3.path = "shuffle"
    /\ Len(pred_diff_list) = 2 /\ Len(truth_diff_list) = 2
    /\ Len(task3.all_pairs) >= 2
    /\ ~HasDisjointCandidates(task3.all_pairs)
    /\ task3.pairs[1].pair_id = JStr(<<"A">>)

\* C25: on the paths other than the default one the candidate list holds no
\* cell (prediction index, truth index) twice, and the two returned pairs are
\* not one candidate twice.
C25_NoCellTwice ==
    (Returned /\ task3.path # "default") =>
       /\ \A i, j \in 1..Len(task3.all_pairs) :
             (/\ task3.all_pairs[i].pred_idx = task3.all_pairs[j].pred_idx
              /\ task3.all_pairs[i].truth_idx = task3.all_pairs[j].truth_idx) => i = j
       /\ ~(/\ task3.pairs[1].predicted = task3.pairs[2].predicted
            /\ task3.pairs[1].ground_truth = task3.pairs[2].ground_truth
            /\ \A i, j \in 1..Len(pred_diff_list) :
                  pred_diff_list[i] = pred_diff_list[j] => i = j
            /\ \A i, j \in 1..Len(truth_diff_list) :
                  truth_diff_list[i] = truth_diff_list[j] => i = j)

\* The candidate a returned pair was built from has this normalized value and
\* this similarity before normalization
C26_FromNormalized(pair) ==
    \E k \in 1..Len(task3.all_pairs) :
       /\ FromCandidate(pair, task3.all_pairs[k])
       /\ pair.similarity = JNum(task3.all_pairs[k].similarity_normalized)
       /\ pair.similarity_original = JNum(task3.all_pairs[k].similarity_original)

C26_AllEqual ==
    \A j, k \in 1..Len(task3.all_pairs) :
       task3.all_pairs[j].similarity_original = task3.all_pairs[k].similarity_original

\* C26: on the paths other than the default one the similarity of each
\* returned pair is the normalized value of its candidate, within [0, 1],
\* similarity_original is the value before normalization, and the similarity
\* of both pairs is 0.5 when all candidates have the same similarity.
C26_NormalizedReturned ==
    (Returned /\ task3.path # "default") =>
       \A p \in 1..Len(task3.pairs) :
          /\ C26_FromNormalized(task3.pairs[p])
          /\ task3.pairs[p].similarity.n >= 0
          /\ task3.pairs[p].similarity.n <= 10000
          /\ C26_AllEqual => task3.pairs[p].similarity.n = 5000

----------------------------------------------------------------------------
(* Claims about step 1                                                     *)

\* Every field the sample has is of the type the code expects: the
\* differentials lists or strings, the matrix a list of lists of numbers
C23_SampleTyped(sample) ==
    /\ sample.similarity_matrix.kind \in {"none", "list"}
    /\ \A r \in 1..Len(sample.similarity_matrix.rows) :
          /\ sample.similarity_matrix.rows[r].kind = "list"
          /\ \A c \in 1..Len(sample.similarity_matrix.rows[r].cells) :
                sample.similarity_matrix.rows[r].cells[c].kind = "num"

\* Every field the reference record has is of the type the code expects
C23_RecordTyped(item) ==
    /\ item.image_paths.kind \in {"list", "missing"}
    /\ \A k \in 1..Len(item.image_paths.items) : item.image_paths.items[k].kind = "str"
    /\ item.prompt.kind \in {"str", "missing"}

\* The inputs of step 1 lack fields but hold none of a wrong type, and there
\* is a sample
C23_FieldsOnlyLacking ==
    /\ per_sample_results # <<>>
    /\ \A k \in 1..Len(per_sample_results) : C23_SampleTyped(per_sample_results[k])
    /\ \A k \in 1..Len(medical_data) : C23_RecordTyped(medical_data[k])

\* Case k is the case of sample k: its id or case_<index>, its text or '', its
\* lists or [], and the ground-truth list joined
C23_CaseOf(case, sample, i) ==
    /\ case.id = (IF sample.id.kind = "missing" THEN DefaultId(i) ELSE sample.id)
    /\ case.pmid = case.id
    /\ case.predicted_diagnosis
          = (IF sample.predicted_differential_text.kind = "missing" THEN JStr(<<>>)
             ELSE sample.predicted_differential_text)
    /\ case.predicted_differential_diagnosis_full
          = (IF sample.predicted_differential.kind = "list"
             THEN sample.predicted_differential.items ELSE <<>>)
    /\ case.ground_truth_differential_diagnosis_full
          = (IF sample.ground_truth_differential.kind = "list"
             THEN sample.ground_truth_differential.items ELSE <<>>)
    /\ case.image_paths.kind = "list"
    /\ case.prompt.kind = "str"
    /\ case.task3_pairs.kind = "list" /\ Len(case.task3_pairs.items) = 2

\* C23: on inputs that lack fields, step 1 never raises; the loop has
\* assembled one case for each sample it is past, in the order of the samples,
\* every lacking field replaced by its default; and the file written holds one
\* case per sample.
C23_OneCasePerSample ==
    C23_FieldsOnlyLacking =>
       /\ pc # "raised"
       /\ Len(processed_cases) = (IF pc = "step1" THEN idx ELSE Len(per_sample_results))
       /\ \A k \in 1..Len(processed_cases) :
             C23_CaseOf(processed_cases[k], per_sample_results[k], k - 1)
       /\ pc # "step1" => temp_file = File(processed_cases)

\* C23 witness: step 1 wrote its file from two samples, the second lacking
\* every field, with a pool whose records lack GT, image_paths and prompt.
C23_Witness ==
    /\ pc = "step2"
    /\ Len(per_sample_results) = 2
    /\ per_sample_results[2] = Sample(JMissing, DMissing, DMissing, JMissing, MatrixNone)
    /\ per_sample_results[1].ground_truth_differential.kind = "missing"
    /\ Len(medical_data) = 2
    /\ \E k \in 1..2 : medical_data[k].image_paths.kind = "missing"
    /\ Len(temp_file.cases) = 2
    /\ temp_file.cases[2].id = DefaultId(1)
    /\ temp_file.cases[2].image_paths = JList(<<>>)

----------------------------------------------------------------------------
(* Claims about what validate_and_filter_data returns                      *)

\* The cases of the input that passed validation, in input order
C27_Passed == C8_Passing(data, 1, {})

\* C27: when the function has returned, the valid list has min(V, max_cases)
\* cases, V the number of cases that passed validation, each of them a case
\* that passed, and none of them twice unless it passed twice; under either
\* policy.
C27_RetainedCount ==
    pc = "done" =>
       /\ Len(valid_cases) = Min2(Len(C27_Passed), max_cases)
       /\ \A v \in 1..Len(valid_cases) :
             \E k \in 1..Len(C27_Passed) : C27_Passed[k] = valid_cases[v]
       /\ \A c \in { valid_cases[v] : v \in 1..Len(valid_cases) } :
             Cardinality({ v \in 1..Len(valid_cases) : valid_cases[v] = c })
                <= Cardinality({ k \in 1..Len(C27_Passed) : C27_Passed[k] = c })
       /\ output_file.cases = valid_cases

\* C27 witness: a stratified selection of three cases out of four of the
\* same similarity_variance returned: all four are in the high tier, whose
\* target is two, and the third case is drawn from it as well.
C27_Witness ==
    /\ pc = "done" /\ random_selection
    /\ Len(data) = 4 /\ max_cases = 3
    /\ Len(C27_Passed) = 4
    /\ \A k \in 1..4 : data[k].similarity_variance = data[1].similarity_variance
    /\ Len(valid_cases) = 3

\* C28: when the function has returned, every case of the input is in one of
\* the two lists and in one only: the valid list and the removed list have
\* together as many entries as the input has cases.
C28_Partition ==
    pc = "done" => Len(valid_cases) + Len(removed_cases) = Len(data)

\* The image signatures of the cases of a list, in the order of the list
C29_Signatures(cases) ==
    [v \in 1..Len(cases) |-> get_image_signature(cases[v].image_paths)]

\* C29: the valid list the function returns holds no image signature twice,
\* whatever the input and whichever way the cases were selected.
C29_SignaturesDistinct ==
    pc = "done" =>
       \A v \in 1..Len(valid_cases) : \A w \in 1..(v - 1) :
          C29_Signatures(valid_cases)[v] # C29_Signatures(valid_cases)[w]

\* The function returned on an input whose two cases have the same signature
\* and different content; the first is kept and the second is recorded as a
\* duplicate.
C29_Witness ==
    /\ pc = "done"
    /\ Len(data) = 2 /\ data[1] # data[2]
    /\ C19_SameSignature(1, 2)
    /\ valid_cases = <<data[1]>>
    /\ RemovedFor(2, {"image set duplicated"})

\* process_evaluation_data has ended, one way or the other, on an input with
\* no sample, or was not called at all
C30_ProcessedNothing ==
    /\ per_sample_results = <<>>
    /\ pc # "step1"

\* validate_and_filter_data has ended, one way or the other, on a file with
\* no case
C30_ValidatedNothing ==
    /\ temp_file = File(<<>>)
    /\ data = <<>>
    /\ pc \in {"done", "raised"}

\* C30: on an input with no sample process_evaluation_data ends without an
\* exception and has written the empty list of cases (the file of cases is
\* there: the function writes it last, and a run that starts at the second
\* step starts from a written file), and on a file with no case
\* validate_and_filter_data ends without an exception with both of its lists
\* empty.
C30_NothingToDo ==
    /\ C30_ProcessedNothing => temp_file.written
    /\ C30_ValidatedNothing =>
          (pc = "done" /\ valid_cases = <<>> /\ removed_cases = <<>>)

\* The half of C30 on process_evaluation_data
C30_ProcessCompletes == C30_ProcessedNothing => temp_file.written

\* The half of C30 on validate_and_filter_data
C30_ValidateCompletes ==
    C30_ValidatedNothing => (pc = "done" /\ valid_cases = <<>> /\ removed_cases = <<>>)
====
